---- MODULE Spec2Model ----
(***************************************************************************)
(* A model of repugnant-pickle's evaluator (src/src/eval.rs) and of the    *)
(* value fix-up (src/src/value.rs).                                        *)
(*                                                                         *)
(* evaluate() runs a for-loop over the instruction slice; one action of    *)
(* the model is one iteration of that loop (one arm of its `match`), and   *)
(* one more action is the code after the loop.  The instruction that an    *)
(* iteration executes is an input, drawn from small sets.                  *)
(***************************************************************************)
EXTENDS Integers, Sequences, FiniteSets, TLC

VARIABLES
    stack,      \* PickleStack: the operand stack, a sequence of Values
    memo,       \* PickleMemo: BTreeMap<u32, Value>, a function on a finite set of ids
    status,     \* "run" (in the loop), "stopped" (loop left), "ok", "error", "panic"
    err,        \* the message of the error or panic, "" when there is none
    last,       \* the instruction executed by the latest loop iteration
    remaining,  \* the number of instructions of the slice not yet consumed
    result,     \* the Vec<Value> that evaluate returned (status = "ok")
    resolved,   \* the resolve_refs argument of evaluate, once it has been read
    walk,       \* step-wise resolution: the chain walk of resolve() in progress
    work,       \* step-wise resolution: the pending calls of resolve_all_refs
    input,      \* parse_ops: the byte buffer handed to the decoder
    cursor,     \* parse_ops: the bytes consumed; the slice i is the buffer from here
    decoded,    \* parse_ops: the Vec<PickleOp> accumulated so far (acc of many1)
    parsed      \* parse_ops: "none" (not called), "parsing", "ok", "error", "failure"

vars == <<stack, memo, status, err, last, remaining, result, resolved, walk, work,
          input, cursor, decoded, parsed>>

\* The variables of the decoder.
decoder == <<input, cursor, decoded, parsed>>

(***************************************************************************)
(* Bounds of the model.                                                    *)
(***************************************************************************)
\* eval.rs:11 sets MAX_DEPTH to 250.  The model runs the same code with a
\* small depth bound, so that both the "resolved fully" and the "stopped at
\* the bound" paths are explored exhaustively.
MAX_DEPTH == 10
\* The largest memo id an instruction carries.
MaxId == 1
\* The length of the instruction slice, per specification.
MaxOps == 3
MaxOpsSeq == 6
MaxOpsMemo == 3
MaxOpsChain == 4
MaxOpsLive == 4
MaxOpsResolve == 3
MaxOpsShare == 3
MaxOpsCaller == 2
MaxLead == 2
\* The deepest nesting of the values that SpecMemo starts from.
MaxNest == 5

(***************************************************************************)
(* Program constants.                                                      *)
(***************************************************************************)
MAX_PROTOCOL == 5

(***************************************************************************)
(* value.rs: enum Value.  A value is a record tagged by k.                 *)
(***************************************************************************)
Raw(op) == [k |-> "Raw", op |-> op]
Ref(id) == [k |-> "Ref", id |-> id]
App(t, args) == [k |-> "App", t |-> t, args |-> args]
Object(t, args) == [k |-> "Object", t |-> t, args |-> args]
Build(t, a) == [k |-> "Build", t |-> t, a |-> a]
PersId(pid) == [k |-> "PersId", pid |-> pid]
Global(t, args) == [k |-> "Global", t |-> t, args |-> args]
SeqV(st, args) == [k |-> "Seq", st |-> st, args |-> args]
String(s) == [k |-> "String", s |-> s]
Bytes(by) == [k |-> "Bytes", by |-> by]
IntV(i) == [k |-> "Int", i |-> i]
BigInt(i) == [k |-> "BigInt", i |-> i]
Float(f) == [k |-> "Float", f |-> f]
RawNum(op) == [k |-> "RawNum", op |-> op]
Bool(bv) == [k |-> "Bool", bv |-> bv]
None == [k |-> "None"]

(***************************************************************************)
(* ops.rs: enum PickleOp.  An instruction is a record tagged by tag; text  *)
(* that the code parses is a sequence of characters (txt), text that it    *)
(* only carries is a string.                                               *)
(***************************************************************************)
Op0(tag) == [tag |-> tag]
OpId(tag, id) == [tag |-> tag, id |-> id]
OpTxt(tag, txt) == [tag |-> tag, txt |-> txt]
OpInt(tag, i) == [tag |-> tag, i |-> i]
OpStr(tag, s) == [tag |-> tag, s |-> s]
OpBytes(tag, by) == [tag |-> tag, by |-> by]
OpNames(tag, mn, gn) == [tag |-> tag, mn |-> mn, gn |-> gn]

MARK == Op0("MARK")
NoOp == Op0("")

(***************************************************************************)
(* Results of the fallible helpers: Result<T>.                             *)
(***************************************************************************)
Ok(v) == [ok |-> TRUE, v |-> v]
Err(e) == [ok |-> FALSE, e |-> e]

\* str::parse::<u32>(): an optional '+', then one or more decimal digits.  (The
\* texts of the model are a few characters long, so the value never exceeds
\* u32::MAX and the overflow error of parse() does not arise.)
DigitVal == [c \in {"0", "1", "2", "3", "4", "5", "6", "7", "8", "9"} |->
              CASE c = "0" -> 0 [] c = "1" -> 1 [] c = "2" -> 2 [] c = "3" -> 3
                [] c = "4" -> 4 [] c = "5" -> 5 [] c = "6" -> 6 [] c = "7" -> 7
                [] c = "8" -> 8 [] c = "9" -> 9]

RECURSIVE ParseDigits(_, _)
ParseDigits(txt, acc) ==
    IF txt = <<>> THEN Ok(acc)
    ELSE IF Head(txt) \notin DOMAIN DigitVal THEN Err("invalid digit found in string")
    ELSE ParseDigits(Tail(txt), acc * 10 + DigitVal[Head(txt)])

ParseU32(txt) ==
    LET body == IF txt # <<>> /\ Head(txt) = "+" THEN Tail(txt) ELSE txt IN
    IF txt = <<>> THEN Err("cannot parse integer from empty string")
    ELSE IF body = <<>> THEN Err("invalid digit found in string")
    ELSE ParseDigits(body, 0)

(***************************************************************************)
(* eval.rs: PickleStack.                                                   *)
(***************************************************************************)
Top(s) == s[Len(s)]
Front(s) == SubSeq(s, 1, Len(s) - 1)

IsMark(v) == v = Raw(MARK)

\* find_mark: the index of the last marker (1-based here; 0 when none).
find_mark(s) ==
    LET marks == {i \in 1..Len(s) : IsMark(s[i])} IN
    IF marks = {} THEN 0 ELSE CHOOSE i \in marks : \A j \in marks : j <= i

\* A pop_mark that hands the values back in pop order (the most recent first).
pop_mark_PopOrder(s) ==
    LET m == find_mark(s) IN
    IF m = 0 THEN Err("Missing MARK")
    ELSE [ok |-> TRUE, v |-> [i \in 1..(Len(s) - m) |-> s[Len(s) + 1 - i]],
          rest |-> SubSeq(s, 1, m - 1)]

\* A pop_mark that goes down to the first marker of the stack.
pop_mark_FirstMark(s) ==
    LET marks == {i \in 1..Len(s) : IsMark(s[i])} IN
    IF marks = {} THEN Err("Missing MARK")
    ELSE LET m == CHOOSE i \in marks : \A j \in marks : i <= j IN
         [ok |-> TRUE, v |-> SubSeq(s, m + 1, Len(s)), rest |-> SubSeq(s, 1, m - 1)]

\* pop_mark: the values above the last marker, and the stack truncated to it.
pop_mark(s) ==
    LET m == find_mark(s) IN
    IF m = 0 THEN Err("Missing MARK")
    ELSE [ok |-> TRUE, v |-> SubSeq(s, m + 1, Len(s)), rest |-> SubSeq(s, 1, m - 1)]

(***************************************************************************)
(* eval.rs: PickleMemo.                                                    *)
(***************************************************************************)
EmptyMemo == <<>>

insert(m, mid, val) ==
    [x \in (DOMAIN m) \cup {mid} |-> IF x = mid THEN val ELSE m[x]]

\* A resolve that follows one reference only, whatever `recursive` says.
resolve_loop_OneHop(m, op, count, recursive) ==
    IF op.k # "Ref" THEN Ok(op)
    ELSE IF op.id \notin DOMAIN m THEN Err("Bad memo id")
    ELSE Ok(m[op.id])

\* A resolve for which the depth bound is an error.
RECURSIVE resolve_loop_Strict(_, _, _, _)
resolve_loop_Strict(m, op, count, recursive) ==
    IF op.k # "Ref" THEN Ok(op)
    ELSE IF op.id \notin DOMAIN m THEN Err("Bad memo id")
    ELSE IF ~recursive THEN Ok(m[op.id])
    ELSE IF count + 1 >= MAX_DEPTH THEN Err("Too deep")
    ELSE resolve_loop_Strict(m, m[op.id], count + 1, recursive)

\* resolve: the while-let loop, count being the number of hops done so far.
RECURSIVE resolve_loop(_, _, _, _)
resolve_loop(m, op, count, recursive) ==
    IF op.k # "Ref" THEN Ok(op)
    ELSE IF op.id \notin DOMAIN m THEN Err("Bad memo id")
    ELSE IF ~recursive THEN Ok(m[op.id])
    ELSE IF count + 1 >= MAX_DEPTH THEN Ok(m[op.id])
    ELSE resolve_loop(m, m[op.id], count + 1, recursive)

resolve(m, op, recursive) == resolve_loop(m, op, 0, recursive)

\* resolve_mut hands back a place: the value it was given ("top"), or the memo
\* entry under an id ("at").  get_mut(..).expect(..) panics on a missing id.
get_mut_expect(m, mid) ==
    IF mid \in DOMAIN m THEN [r |-> "at", id |-> mid]
    ELSE [r |-> "panic", e |-> "Impossible: Missing memo id"]

RECURSIVE resolve_mut_loop(_, _, _, _)
resolve_mut_loop(m, lastmid, count, recursive) ==
    IF lastmid \notin DOMAIN m THEN [r |-> "err", e |-> "Bad memo id"]
    ELSE IF m[lastmid].k # "Ref" THEN get_mut_expect(m, lastmid)
    ELSE IF ~recursive THEN get_mut_expect(m, m[lastmid].id)
    ELSE IF count + 1 >= MAX_DEPTH THEN get_mut_expect(m, m[lastmid].id)
    ELSE resolve_mut_loop(m, m[lastmid].id, count + 1, recursive)

resolve_mut(m, op, recursive) ==
    IF op.k # "Ref" THEN [r |-> "top"]
    ELSE resolve_mut_loop(m, op.id, 0, recursive)

(***************************************************************************)
(* value.rs: fix_value.                                                    *)
(***************************************************************************)
\* bint >= i64::MIN && bint <= i64::MAX, for the integer of a payload of blen
\* bytes: a payload of at most 7 bytes always lies in the range (the payloads
\* of the model are shorter than 8 bytes).
InI64(bint, blen) == blen <= 7

RECURSIVE Pow(_, _)
Pow(b, n) == IF n = 0 THEN 1 ELSE b * Pow(b, n - 1)

\* a & b on unsigned integers.
RECURSIVE BitAnd(_, _)
BitAnd(a, b) ==
    IF a = 0 \/ b = 0 THEN 0
    ELSE (a % 2) * (b % 2) + 2 * BitAnd(a \div 2, b \div 2)

\* BigInt::from_bytes_le(Sign::Plus, b)
RECURSIVE from_bytes_le(_)
from_bytes_le(b) ==
    IF b = <<>> THEN 0 ELSE Head(b) + 256 * from_bytes_le(Tail(b))

\* The LONG1 / LONG4 arm of fix_value, for a non-empty payload.
fix_long(b) ==
    LET blen == Len(b)
        is_neg == BitAnd(b[blen], 80) # 0
        plus == from_bytes_le(b)
        bint == IF is_neg THEN plus - Pow(2, blen * 8) ELSE plus
    IN  IF InI64(bint, blen) THEN IntV(bint) ELSE BigInt(bint)

\* std::str::from_utf8 on a byte payload: the well-formed UTF-8 sequences.
Cont(x) == x >= 128 /\ x <= 191

RECURSIVE Utf8Valid(_)
Utf8Valid(b) ==
    IF b = <<>> THEN TRUE
    ELSE LET b0 == b[1]
             n == Len(b)
             rest(k) == SubSeq(b, k + 1, n)
         IN  IF b0 < 128 THEN Utf8Valid(rest(1))
             ELSE IF b0 >= 194 /\ b0 <= 223
                  THEN n >= 2 /\ Cont(b[2]) /\ Utf8Valid(rest(2))
             ELSE IF b0 >= 224 /\ b0 <= 239
                  THEN /\ n >= 3
                       /\ Cont(b[2]) /\ Cont(b[3])
                       /\ (b0 = 224 => b[2] >= 160)
                       /\ (b0 = 237 => b[2] <= 159)
                       /\ Utf8Valid(rest(3))
             ELSE IF b0 >= 240 /\ b0 <= 244
                  THEN /\ n >= 4
                       /\ Cont(b[2]) /\ Cont(b[3]) /\ Cont(b[4])
                       /\ (b0 = 240 => b[2] >= 144)
                       /\ (b0 = 244 => b[2] <= 143)
                       /\ Utf8Valid(rest(4))
             ELSE FALSE

\* The text that a well-formed payload decodes to (the model's payloads are
\* drawn from these bytes).
Utf8Char(x) == CASE x = 97 -> "a" [] x = 98 -> "b" [] x = 48 -> "0" [] x = 49 -> "1"
                 [] OTHER -> "?"

RECURSIVE Utf8Text(_)
Utf8Text(b) == IF b = <<>> THEN "" ELSE Utf8Char(Head(b)) \o Utf8Text(Tail(b))

IsIntText(op, txt) == op.tag = "INT" /\ op.txt = txt

fix_value(val) ==
    IF val.k # "Raw" THEN Ok(val)
    ELSE LET rv == val.op
             tag == rv.tag
         IN  Ok(CASE tag \in {"BININT", "BININT1", "BININT2"} -> IntV(rv.i)
               [] tag \in {"LONG1", "LONG4"} /\ rv.by # <<>> -> fix_long(rv.by)
               [] tag = "BINFLOAT" -> Float(rv.f)
               [] tag \in {"BINUNICODE", "BINUNICODE8", "SHORT_BINUNICODE"} -> String(rv.s)
               [] tag \in {"BINBYTES", "BINBYTES8", "SHORT_BINBYTES", "BYTEARRAY8"} ->
                      Bytes(rv.by)
               [] tag \in {"BINSTRING", "SHORT_BINSTRING"} ->
                      IF Utf8Valid(rv.by) THEN String(Utf8Text(rv.by)) ELSE Bytes(rv.by)
               [] tag = "NEWTRUE" -> Bool(TRUE)
               [] tag = "NEWFALSE" -> Bool(FALSE)
               [] tag = "NONE" -> None
               [] IsIntText(rv, <<"0", "1">>) -> Bool(TRUE)
               [] IsIntText(rv, <<"0", "0">>) -> Bool(FALSE)
               [] tag \in {"INT", "FLOAT", "LONG"} -> RawNum(rv)
               [] tag \in {"LONG1", "LONG4"} /\ rv.by = <<>> -> RawNum(rv)
               [] OTHER -> val)

(***************************************************************************)
(* eval.rs: PickleMemo::resolve_all_refs_iter / resolve_all_refs.          *)
(***************************************************************************)
\* The one element of a one-element set.  In {e(x) : x \in {r}} the result r
\* of a call is computed once and x is its value: this is how the results of
\* the recursive calls are named below.
The(S) == CHOOSE x \in S : TRUE

\* collect::<Result<Vec<_>>>(): the values, or the first error.
Collect(rs) ==
    The({IF \E i \in DOMAIN x : ~x[i].ok
         THEN x[CHOOSE i \in DOMAIN x : ~x[i].ok /\ \A j \in 1..(i - 1) : x[j].ok]
         ELSE Ok([i \in DOMAIN x |-> x[i].v]) : x \in {rs}})

RECURSIVE resolve_all_refs(_, _, _, _)
RECURSIVE resolve_all_refs_iter(_, _, _, _)

\* A resolve_all_refs_iter that hands the values back as they are.
resolve_all_refs_iter_Untouched(m, depth, vals, fix_values) == Ok(vals)

resolve_all_refs_iter(m, depth, vals, fix_values) ==
    IF depth >= MAX_DEPTH THEN Ok(vals)
    ELSE Collect([i \in 1..Len(vals) |-> resolve_all_refs(m, depth + 1, vals[i], fix_values)])

\* A resolve_all_refs that leaves every Ref where it is.
resolve_all_refs_KeepRefs(m, depth, val, fix_values) ==
    IF depth >= MAX_DEPTH THEN Ok(val)
    ELSE IF val.k = "Seq"
         THEN The({IF a.ok THEN Ok(SeqV(val.st, a.v)) ELSE a :
                   a \in {resolve_all_refs_iter(m, depth + 1, val.args, fix_values)}})
    ELSE IF fix_values THEN fix_value(val)
    ELSE Ok(val)

resolve_all_refs(m, depth, val, fix_values) ==
    IF depth >= MAX_DEPTH THEN Ok(val)
    ELSE LET rar(v) == resolve_all_refs(m, depth + 1, v, fix_values)
             rir(i) == resolve_all_refs_iter(m, depth + 1, i, fix_values)
             output ==
                 CASE val.k = "Ref" ->
                        The({IF r.ok THEN rar(r.v) ELSE r : r \in {resolve(m, val, TRUE)}})
                   [] val.k \in {"App", "Object", "Global"} ->
                        The({IF ~t.ok THEN t
                             ELSE The({IF ~a.ok THEN a
                                       ELSE Ok([k |-> val.k, t |-> t.v, args |-> a.v]) :
                                       a \in {rir(val.args)}}) :
                             t \in {rar(val.t)}})
                   [] val.k = "Build" ->
                        The({IF ~t.ok THEN t
                             ELSE The({IF ~a.ok THEN a ELSE Ok(Build(t.v, a.v)) :
                                       a \in {rar(val.a)}}) :
                             t \in {rar(val.t)}})
                   [] val.k = "Seq" ->
                        The({IF ~a.ok THEN a ELSE Ok(SeqV(val.st, a.v)) :
                             a \in {rir(val.args)}})
                   [] val.k = "PersId" ->
                        The({IF ~p.ok THEN p ELSE Ok(PersId(p.v)) : p \in {rar(val.pid)}})
                   [] OTHER -> Ok(val)
         IN  The({IF ~o.ok THEN o
                  ELSE IF fix_values THEN fix_value(o.v)
                  ELSE o : o \in {output}})

(***************************************************************************)
(* eval.rs: evaluate, the arms of `match op`.  Each arm maps the stack and *)
(* the memo table to an outcome: the loop goes on ("run"), is left by      *)
(* `break` ("stopped"), or evaluate is left by `?` / bail! / ensure!       *)
(* ("error") or by a panic ("panic").  On an error or a panic the outcome  *)
(* holds the stack and the memo table as they are when it is raised.       *)
(***************************************************************************)
Run(s, m) == [st |-> "run", stack |-> s, memo |-> m, err |-> ""]
Break(s, m) == [st |-> "stopped", stack |-> s, memo |-> m, err |-> ""]
Fail(s, m, e) == [st |-> "error", stack |-> s, memo |-> m, err |-> e]
Panic(s, m, e) == [st |-> "panic", stack |-> s, memo |-> m, err |-> e]

Underrun == "Stack underrun"

\* A make_kvlist that leaves the list flat.
make_kvlist_Flat(items) ==
    IF Len(items) % 2 # 0 THEN Err("Bad value for setitems") ELSE Ok(items)

\* make_kvlist: pairs up a flat list k1, v1, k2, v2, ...
make_kvlist(items) ==
    IF Len(items) % 2 # 0 THEN Err("Bad value for setitems")
    ELSE Ok([i \in 1..(Len(items) \div 2) |->
                SeqV("Tuple", <<items[2 * i - 1], items[2 * i]>>)])

Op_MARK(s, m) == Run(Append(s, Raw(MARK)), m)

\* A STOP that is skipped: the loop goes on with the next instruction.
Op_STOP_Continue(s, m) == Run(s, m)

Op_STOP(s, m) == Break(s, m)

Op_POP(s, m) ==
    IF s = <<>> THEN Fail(s, m, Underrun) ELSE Run(Front(s), m)

Op_POP_MARK(s, m) ==
    LET pm == pop_mark(s) IN
    IF ~pm.ok THEN Fail(s, m, pm.e) ELSE Run(pm.rest, m)

Op_DUP(s, m) ==
    IF s = <<>> THEN Fail(s, m, "Cannot DUP with empty stack")
    ELSE Run(Append(s, Top(s)), m)

Op_PERSID(op, s, m) == Run(Append(s, PersId(String(op.s))), m)

Op_BINPERSID(s, m) ==
    IF s = <<>> THEN Fail(s, m, Underrun)
    ELSE Run(Append(Front(s), PersId(Top(s))), m)

\* The two operands of REDUCE, BUILD and STACK_GLOBAL: each is popped and then
\* resolved through the memo table, the top one first.
PopResolve2(s, m) ==
    IF s = <<>> THEN Fail(s, m, Underrun)
    ELSE LET first == resolve(m, Top(s), TRUE)
             s1 == Front(s)
         IN  IF ~first.ok THEN Fail(s1, m, first.e)
             ELSE IF s1 = <<>> THEN Fail(s1, m, Underrun)
             ELSE LET second == resolve(m, Top(s1), TRUE)
                      s2 == Front(s1)
                  IN  IF ~second.ok THEN Fail(s2, m, second.e)
                      ELSE [st |-> "run", stack |-> s2, memo |-> m, err |-> "",
                            first |-> first.v, second |-> second.v]

\* A REDUCE that takes the callable from the top and the arguments from under it.
Op_REDUCE_Swapped(s, m) ==
    LET p == PopResolve2(s, m) IN
    IF p.st # "run" THEN p
    ELSE Run(Append(p.stack, Global(p.first, <<p.second>>)), m)

Op_REDUCE(s, m) ==
    LET p == PopResolve2(s, m) IN
    IF p.st # "run" THEN p
    ELSE Run(Append(p.stack, Global(p.second, <<p.first>>)), m)

Op_BUILD(s, m) ==
    LET p == PopResolve2(s, m) IN
    IF p.st # "run" THEN p
    ELSE Run(Append(p.stack, Build(p.second, p.first)), m)

\* An EMPTY_DICT that pushes an empty list.
Op_EMPTY_DICT_AsList(s, m) == Run(Append(s, SeqV("List", <<>>)), m)

Op_EMPTY_DICT(s, m) == Run(Append(s, SeqV("Dict", <<>>)), m)

Op_GET(op, s, m) ==
    LET mid == ParseU32(op.txt) IN
    IF ~mid.ok THEN Fail(s, m, mid.e) ELSE Run(Append(s, Ref(mid.v)), m)

\* A BINGET that looks the id up and fails when the table does not hold it.
Op_BINGET_Checked(op, s, m) ==
    IF op.id \notin DOMAIN m THEN Fail(s, m, "Bad memo id")
    ELSE Run(Append(s, Ref(op.id)), m)

Op_BINGET(op, s, m) == Run(Append(s, Ref(op.id)), m)

Op_LONG_BINGET(op, s, m) == Run(Append(s, Ref(op.id)), m)

Op_EMPTY_LIST(s, m) == Run(Append(s, SeqV("List", <<>>)), m)

\* A BINPUT that stores the stack top and leaves it where it is.
Op_BINPUT_KeepTop(op, s, m) ==
    IF s = <<>> THEN Fail(s, m, Underrun)
    ELSE Run(s, insert(m, op.id, Top(s)))

Op_BINPUT(op, s, m) ==
    IF s = <<>> THEN Fail(s, m, Underrun)
    ELSE Run(Append(Front(s), Ref(op.id)), insert(m, op.id, Top(s)))

Op_LONG_BINPUT(op, s, m) ==
    IF s = <<>> THEN Fail(s, m, Underrun)
    ELSE Run(Append(Front(s), Ref(op.id)), insert(m, op.id, Top(s)))

Op_TUPLE(s, m) ==
    LET pm == pop_mark(s) IN
    IF ~pm.ok THEN Fail(s, m, pm.e)
    ELSE Run(Append(pm.rest, SeqV("Tuple", pm.v)), m)

Op_EMPTY_TUPLE(s, m) == Run(Append(s, SeqV("Tuple", <<>>)), m)

\* An ExtendTarget that lets a target that is no Global and no Seq pass: the
\* items are dropped and the loop goes on.
ExtendTarget_Lenient(s, m, items, badtop) ==
    IF s = <<>> THEN Fail(s, m, "Unexpected empty stack")
    ELSE LET rtop == resolve_mut(m, Top(s), TRUE) IN
         CASE rtop.r = "err" -> Fail(s, m, rtop.e)
           [] rtop.r = "panic" -> Panic(s, m, rtop.e)
           [] rtop.r = "top" ->
                IF Top(s).k \in {"Global", "Seq"}
                THEN Run([s EXCEPT ![Len(s)].args = @ \o items], m)
                ELSE Run(s, m)
           [] rtop.r = "at" ->
                IF m[rtop.id].k \in {"Global", "Seq"}
                THEN Run(s, [m EXCEPT ![rtop.id].args = @ \o items])
                ELSE Run(s, m)

\* An ExtendTarget that resolves the stack top by value: the items go to a
\* copy of the memo entry, and the entry itself stays as it was.
ExtendTarget_Clone(s, m, items, badtop) ==
    IF s = <<>> THEN Fail(s, m, "Unexpected empty stack")
    ELSE LET rtop == resolve(m, Top(s), TRUE) IN
         IF ~rtop.ok THEN Fail(s, m, rtop.e)
         ELSE IF rtop.v.k \in {"Global", "Seq"}
              THEN IF Top(s).k = "Ref" THEN Run(s, m)
                   ELSE Run([s EXCEPT ![Len(s)].args = @ \o items], m)
              ELSE Fail(s, m, badtop)

\* The common tail of SETITEM, SETITEMS, APPEND, APPENDS and ADDITEMS:
\* stack.last_mut(), memo.resolve_mut(top, true), and the items added to the
\* argument list of the Global or Seq that was found.
ExtendTarget(s, m, items, badtop) ==
    IF s = <<>> THEN Fail(s, m, "Unexpected empty stack")
    ELSE LET rtop == resolve_mut(m, Top(s), TRUE) IN
         CASE rtop.r = "err" -> Fail(s, m, rtop.e)
           [] rtop.r = "panic" -> Panic(s, m, rtop.e)
           [] rtop.r = "top" ->
                IF Top(s).k \in {"Global", "Seq"}
                THEN Run([s EXCEPT ![Len(s)].args = @ \o items], m)
                ELSE Fail(s, m, badtop)
           [] rtop.r = "at" ->
                IF m[rtop.id].k \in {"Global", "Seq"}
                THEN Run(s, [m EXCEPT ![rtop.id].args = @ \o items])
                ELSE Fail(s, m, badtop)

Op_SETITEM(s, m) ==
    IF Len(s) < 2 THEN Fail(<<>>, m, Underrun)
    ELSE LET v == s[Len(s)]
             k == s[Len(s) - 1]
         IN  ExtendTarget(SubSeq(s, 1, Len(s) - 2), m,
                          <<SeqV("Tuple", <<k, v>>)>>, "Bad stack top for SETITEM!")

Op_SETITEMS(s, m) ==
    LET pm == pop_mark(s) IN
    IF ~pm.ok THEN Fail(s, m, pm.e)
    ELSE LET kvitems == make_kvlist(pm.v) IN
         IF ~kvitems.ok THEN Fail(pm.rest, m, kvitems.e)
         ELSE ExtendTarget(pm.rest, m, <<SeqV("Tuple", kvitems.v)>>,
                           "Bad stack top for SETITEMS")

\* A PROTO that accepts every protocol number.
Op_PROTO_AnyVersion(op, s, m) == Run(s, m)

Op_PROTO(op, s, m) ==
    IF op.i <= MAX_PROTOCOL THEN Run(s, m) ELSE Fail(s, m, "Unsupported protocol")

Op_TUPLE1(s, m) ==
    IF Len(s) < 1 THEN Fail(<<>>, m, Underrun)
    ELSE LET t1 == s[Len(s)] IN
         Run(Append(SubSeq(s, 1, Len(s) - 1), SeqV("Tuple", <<t1>>)), m)

Op_TUPLE2(s, m) ==
    IF Len(s) < 2 THEN Fail(<<>>, m, Underrun)
    ELSE LET t1 == s[Len(s)]
             t2 == s[Len(s) - 1]
         IN  Run(Append(SubSeq(s, 1, Len(s) - 2), SeqV("Tuple", <<t1, t2>>)), m)

Op_TUPLE3(s, m) ==
    IF Len(s) < 3 THEN Fail(<<>>, m, Underrun)
    ELSE LET t1 == s[Len(s)]
             t2 == s[Len(s) - 1]
             t3 == s[Len(s) - 2]
         IN  Run(Append(SubSeq(s, 1, Len(s) - 3), SeqV("Tuple", <<t1, t2, t3>>)), m)

Op_APPEND(s, m) ==
    IF s = <<>> THEN Fail(s, m, Underrun)
    ELSE ExtendTarget(Front(s), m, <<Top(s)>>, "Bad stack top for APPEND!")

Op_APPENDS(s, m) ==
    LET pm == pop_mark(s) IN
    IF ~pm.ok THEN Fail(s, m, pm.e)
    ELSE ExtendTarget(pm.rest, m, pm.v, "Bad stack top for APPENDS")

Op_DICT(s, m) ==
    LET pm == pop_mark(s) IN
    IF ~pm.ok THEN Fail(s, m, pm.e)
    ELSE LET kvitems == make_kvlist(pm.v) IN
         IF ~kvitems.ok THEN Fail(pm.rest, m, kvitems.e)
         ELSE Run(Append(pm.rest, SeqV("Dict", kvitems.v)), m)

Op_LIST(s, m) ==
    LET pm == pop_mark(s) IN
    IF ~pm.ok THEN Fail(s, m, pm.e)
    ELSE Run(Append(pm.rest, SeqV("List", pm.v)), m)

Op_INST(op, s, m) ==
    LET pm == pop_mark(s) IN
    IF ~pm.ok THEN Fail(s, m, pm.e)
    ELSE Run(Append(pm.rest,
                    Object(SeqV("Tuple", <<String(op.mn), String(op.gn)>>), pm.v)), m)

\* OBJ indexes the stack at markidx + 1 and slices it from markidx + 2, both
\* unchecked: with the marker on top of the stack the slice is out of range.
Op_OBJ(s, m) ==
    LET mk == find_mark(s) IN
    IF mk = 0 THEN Fail(s, m, "Missing MARK")
    ELSE IF mk + 1 > Len(s)
         THEN Panic(s, m, "range start index out of range for slice")
    ELSE LET args == SubSeq(s, mk + 2, Len(s))
             cls == s[mk + 1]
         IN  Run(Append(SubSeq(s, 1, mk - 1), Object(cls, args)), m)

Op_PUT(op, s, m) ==
    LET mid == ParseU32(op.txt) IN
    IF ~mid.ok THEN Fail(s, m, mid.e)
    ELSE IF s = <<>> THEN Fail(s, m, Underrun)
    ELSE Run(Append(Front(s), Ref(mid.v)), insert(m, mid.v, Top(s)))

Op_NEWOBJ(s, m) ==
    IF Len(s) < 2 THEN Fail(<<>>, m, Underrun)
    ELSE LET args == s[Len(s)]
             cls == s[Len(s) - 1]
         IN  Run(Append(SubSeq(s, 1, Len(s) - 2), Object(cls, <<args>>)), m)

Op_EMPTY_SET(s, m) == Run(Append(s, SeqV("Set", <<>>)), m)

Op_ADDITEMS(s, m) ==
    LET pm == pop_mark(s) IN
    IF ~pm.ok THEN Fail(s, m, pm.e)
    ELSE ExtendTarget(pm.rest, m, pm.v, "Bad stack top for ADDITEMS")

Op_FROZENSET(s, m) ==
    LET pm == pop_mark(s) IN
    IF ~pm.ok THEN Fail(s, m, pm.e)
    ELSE Run(Append(pm.rest, SeqV("FrozenSet", pm.v)), m)

Op_NEWOBJ_EX(s, m) ==
    IF Len(s) < 3 THEN Fail(<<>>, m, Underrun)
    ELSE LET kwargs == s[Len(s)]
             args == s[Len(s) - 1]
             cls == s[Len(s) - 2]
         IN  Run(Append(SubSeq(s, 1, Len(s) - 3),
                        Object(cls, <<SeqV("Tuple", <<args, kwargs>>)>>)), m)

Op_STACK_GLOBAL(s, m) ==
    LET p == PopResolve2(s, m) IN
    IF p.st # "run" THEN p
    ELSE Run(Append(p.stack, Global(SeqV("Tuple", <<p.first, p.second>>), <<>>)), m)

\* A MEMOIZE that always stores under the id 0.
Op_MEMOIZE_Id0(s, m) ==
    IF s = <<>> THEN Fail(s, m, Underrun)
    ELSE Run(s, insert(m, 0, Top(s)))

\* A MEMOIZE that works as the PUT family does: the top is replaced by a Ref.
Op_MEMOIZE_AsPut(s, m) ==
    IF s = <<>> THEN Fail(s, m, Underrun)
    ELSE Run(Append(Front(s), Ref(Cardinality(DOMAIN m))),
             insert(m, Cardinality(DOMAIN m), Top(s)))

Op_MEMOIZE(s, m) ==
    IF s = <<>> THEN Fail(s, m, Underrun)
    ELSE Run(s, insert(m, Cardinality(DOMAIN m), Top(s)))

\* A fallthrough arm that skips the instruction.
Op_Raw_Dropped(op, s, m) == Run(s, m)

\* A fallthrough arm that turns GLOBAL(module, name) into a Global node.
Op_Raw_GlobalNode(op, s, m) ==
    IF op.tag = "GLOBAL"
    THEN Run(Append(s, Global(SeqV("Tuple", <<String(op.mn), String(op.gn)>>), <<>>)), m)
    ELSE Run(Append(s, Raw(op)), m)

\* The fallthrough arm: the instruction itself, as a Value::Raw.
Op_Raw(op, s, m) == Run(Append(s, Raw(op)), m)

\* match op { ... }
Exec(op, s, m) ==
    CASE op.tag = "MARK" -> Op_MARK(s, m)
      [] op.tag = "STOP" -> Op_STOP(s, m)
      [] op.tag = "POP" -> Op_POP(s, m)
      [] op.tag = "POP_MARK" -> Op_POP_MARK(s, m)
      [] op.tag = "DUP" -> Op_DUP(s, m)
      [] op.tag = "PERSID" -> Op_PERSID(op, s, m)
      [] op.tag = "BINPERSID" -> Op_BINPERSID(s, m)
      [] op.tag = "REDUCE" -> Op_REDUCE(s, m)
      [] op.tag = "BUILD" -> Op_BUILD(s, m)
      [] op.tag = "EMPTY_DICT" -> Op_EMPTY_DICT(s, m)
      [] op.tag = "GET" -> Op_GET(op, s, m)
      [] op.tag = "BINGET" -> Op_BINGET(op, s, m)
      [] op.tag = "LONG_BINGET" -> Op_LONG_BINGET(op, s, m)
      [] op.tag = "EMPTY_LIST" -> Op_EMPTY_LIST(s, m)
      [] op.tag = "BINPUT" -> Op_BINPUT(op, s, m)
      [] op.tag = "LONG_BINPUT" -> Op_LONG_BINPUT(op, s, m)
      [] op.tag = "TUPLE" -> Op_TUPLE(s, m)
      [] op.tag = "EMPTY_TUPLE" -> Op_EMPTY_TUPLE(s, m)
      [] op.tag = "SETITEM" -> Op_SETITEM(s, m)
      [] op.tag = "SETITEMS" -> Op_SETITEMS(s, m)
      [] op.tag = "PROTO" -> Op_PROTO(op, s, m)
      [] op.tag = "TUPLE1" -> Op_TUPLE1(s, m)
      [] op.tag = "TUPLE2" -> Op_TUPLE2(s, m)
      [] op.tag = "TUPLE3" -> Op_TUPLE3(s, m)
      [] op.tag = "APPEND" -> Op_APPEND(s, m)
      [] op.tag = "APPENDS" -> Op_APPENDS(s, m)
      [] op.tag = "DICT" -> Op_DICT(s, m)
      [] op.tag = "LIST" -> Op_LIST(s, m)
      [] op.tag = "INST" -> Op_INST(op, s, m)
      [] op.tag = "OBJ" -> Op_OBJ(s, m)
      [] op.tag = "PUT" -> Op_PUT(op, s, m)
      [] op.tag = "NEWOBJ" -> Op_NEWOBJ(s, m)
      [] op.tag = "EMPTY_SET" -> Op_EMPTY_SET(s, m)
      [] op.tag = "ADDITEMS" -> Op_ADDITEMS(s, m)
      [] op.tag = "FROZENSET" -> Op_FROZENSET(s, m)
      [] op.tag = "NEWOBJ_EX" -> Op_NEWOBJ_EX(s, m)
      [] op.tag = "STACK_GLOBAL" -> Op_STACK_GLOBAL(s, m)
      [] op.tag = "MEMOIZE" -> Op_MEMOIZE(s, m)
      [] OTHER -> Op_Raw(op, s, m)

\* The loop over a whole slice: the iterations run one after the other until
\* the slice is exhausted or an iteration leaves the loop.
RECURSIVE RunFrom(_, _)
RunFrom(o, ops) ==
    IF ops = <<>> \/ o.st # "run" THEN o
    ELSE RunFrom(Exec(Head(ops), o.stack, o.memo), Tail(ops))

RunOps(ops) == RunFrom(Run(<<>>, EmptyMemo), ops)


(***************************************************************************)
(* The inputs: the arguments that the instructions of a slice carry.       *)
(***************************************************************************)
MemoIds == 0..MaxId
IdTexts == {<<"0">>, <<"1">>, <<"x">>}
Protocols == {0, MAX_PROTOCOL, MAX_PROTOCOL + 1}

NONE == Op0("NONE")
BININT1(i) == OpInt("BININT1", i)
GLOBAL(mn, gn) == OpNames("GLOBAL", mn, gn)

\* Instructions without an arm of their own (value literals and GLOBAL).
Ints == {1, 2}
RawOps == {NONE, GLOBAL("builtins", "int")}

\* The instructions that a slice is made of: every PickleOp with an arm of its
\* own in evaluate, and of those without one (the fallthrough arm) BININT1,
\* NONE and GLOBAL.
Ops ==
    {Op0(tag) : tag \in
        {"MARK", "STOP", "POP", "POP_MARK", "DUP", "BINPERSID", "REDUCE", "BUILD",
         "EMPTY_DICT", "EMPTY_LIST", "TUPLE", "EMPTY_TUPLE", "SETITEM", "SETITEMS",
         "TUPLE1", "TUPLE2", "TUPLE3", "APPEND", "APPENDS", "DICT", "LIST", "OBJ",
         "NEWOBJ", "EMPTY_SET", "ADDITEMS", "FROZENSET", "NEWOBJ_EX",
         "STACK_GLOBAL", "MEMOIZE"}}
        \cup {OpStr("PERSID", "pid"), OpNames("INST", "mod", "cls")}
        \cup {OpTxt(tag, txt) : tag \in {"GET", "PUT"}, txt \in IdTexts}
        \cup {OpId(tag, id) : tag \in {"BINGET", "LONG_BINGET", "BINPUT", "LONG_BINPUT"},
                              id \in MemoIds}
        \cup {OpInt("PROTO", p) : p \in Protocols}
        \cup {BININT1(i) : i \in Ints}
        \cup RawOps

\* The instructions of Ops with one of the given tags.
OpsOf(tags) == {op \in Ops : op.tag \in tags}

(***************************************************************************)
(* evaluate: the state after `let mut stack = ..; let mut memo = ..;` for  *)
(* a slice of n instructions.                                              *)
(***************************************************************************)
NoWalk == [on |-> FALSE]

InitFor(n) ==
    /\ stack = <<>>
    /\ memo = EmptyMemo
    /\ status = "run"
    /\ err = ""
    /\ last = NoOp
    /\ remaining = n
    /\ result = <<>>
    /\ resolved = FALSE
    /\ walk = NoWalk
    /\ work = <<>>
    /\ input = <<>>
    /\ cursor = 0
    /\ decoded = <<>>
    /\ parsed = "none"

\* One iteration of `for op in x.iter()`, on the instruction op.
\* An iteration that swallows the error of a failing instruction and goes on
\* with the next one.
Step_SkipFailed(op) ==
    /\ status = "run"
    /\ remaining > 0
    /\ LET o == Exec(op, stack, memo) IN
        /\ stack' = IF o.st = "error" THEN stack ELSE o.stack
        /\ memo' = IF o.st = "error" THEN memo ELSE o.memo
        /\ status' = IF o.st = "error" THEN "run" ELSE o.st
        /\ err' = IF o.st = "error" THEN "" ELSE o.err
    /\ last' = op
    /\ remaining' = remaining - 1
    /\ UNCHANGED <<result, resolved, walk, work>>
    /\ UNCHANGED decoder

Step(op) ==
    /\ status = "run"
    /\ remaining > 0
    /\ LET o == Exec(op, stack, memo) IN
        /\ stack' = o.stack
        /\ memo' = o.memo
        /\ status' = o.st
        /\ err' = o.err
    /\ last' = op
    /\ remaining' = remaining - 1
    /\ UNCHANGED <<result, resolved, walk, work>>
    /\ UNCHANGED decoder

\* The for-loop ends: the slice is exhausted.
EndOfOps ==
    /\ status = "run"
    /\ remaining = 0
    /\ status' = "stopped"
    /\ UNCHANGED <<stack, memo, err, last, remaining, result, resolved, walk, work>>
    /\ UNCHANGED decoder

\* The code after the loop (eval.rs:404-409), for either value of resolve_refs.
Return ==
    /\ status = "stopped"
    /\ \E resolve_refs \in BOOLEAN :
        LET r == IF resolve_refs THEN resolve_all_refs_iter(memo, 0, stack, TRUE)
                 ELSE Ok(stack)
        IN  /\ resolved' = resolve_refs
            /\ status' = IF r.ok THEN "ok" ELSE "error"
            /\ err' = IF r.ok THEN "" ELSE r.e
            /\ result' = IF r.ok THEN r.v ELSE <<>>
    /\ UNCHANGED <<stack, memo, last, remaining, walk, work>>
    /\ UNCHANGED decoder

Init == InitFor(MaxOps)

Next ==
    \/ \E op \in Ops : Step(op)
    \/ EndOfOps
    \/ Return

Spec == Init /\ [][Next]_vars

(***************************************************************************)
(* SpecSeq: slices that build containers from a marker.                    *)
(***************************************************************************)
InitSeq == InitFor(MaxOpsSeq)

NextSeq ==
    \/ \E op \in OpsOf({"MARK", "BININT1", "TUPLE", "DICT", "STOP"}) : Step(op)
    \/ EndOfOps
    \/ Return

SpecSeq == InitSeq /\ [][NextSeq]_vars

(***************************************************************************)
(* SpecChain: evaluate on slices that start by building a reference chain  *)
(* Ref(0) -> Ref(1) -> ... -> Ref(L) in the memo table, with the Ref to    *)
(* its head on the stack, and go on with append/setitem-family             *)
(* instructions.  The initial states are the states of the loop after that *)
(* prefix of the slice, computed by the loop itself (RunOps).              *)
(***************************************************************************)
\* BINPUT(n - 1), ..., BINPUT(0): each stores the Ref on top of the stack
\* under the next id and leaves a Ref to that id on the stack.
RECURSIVE ChainLinks(_)
ChainLinks(n) ==
    IF n = 0 THEN <<>> ELSE <<OpId("BINPUT", n - 1)>> \o ChainLinks(n - 1)

\* The number of memo entries that hold a Ref of the chain.
ChainLens == {0, 1, 2, MAX_DEPTH - 2, MAX_DEPTH - 1, MAX_DEPTH, MAX_DEPTH + 1}

\* What the chain ends in: an id that was never stored (BINGET alone), or a
\* memoized list, set, dict, Global or plain value.
ChainHeads(n) ==
    { <<OpId("BINGET", n)>>,
      <<Op0("EMPTY_LIST"), OpId("BINPUT", n)>>,
      <<Op0("EMPTY_SET"), OpId("BINPUT", n)>>,
      <<Op0("EMPTY_DICT"), OpId("BINPUT", n)>>,
      <<NONE, NONE, Op0("STACK_GLOBAL"), OpId("BINPUT", n)>>,
      <<NONE, OpId("BINPUT", n)>> }

InitChainFor(k) ==
    \E n \in ChainLens : \E head \in ChainHeads(n) :
        LET prefix == head \o ChainLinks(n)
            o == RunOps(prefix)
        IN  /\ stack = o.stack
            /\ memo = o.memo
            /\ status = o.st
            /\ err = o.err
            /\ last = prefix[Len(prefix)]
            /\ remaining = k
            /\ result = <<>>
            /\ resolved = FALSE
            /\ walk = NoWalk
            /\ work = <<>>
            /\ input = <<>>
            /\ cursor = 0
            /\ decoded = <<>>
            /\ parsed = "none"

InitChain == InitChainFor(MaxOpsChain)

NextChain ==
    \/ \E op \in OpsOf({"MARK", "BININT1", "STOP"} \cup
                       {"APPEND", "APPENDS", "ADDITEMS", "SETITEM", "SETITEMS"}) : Step(op)
    \/ EndOfOps
    \/ Return

SpecChain == InitChain /\ [][NextChain]_vars

(***************************************************************************)
(* SpecMemo: evaluate on slices that push a value, store it in the memo    *)
(* table and fetch it again.  The initial states are the states of the     *)
(* loop after a prefix of the slice that builds the value: nothing, an     *)
(* integer under 0..MaxNest one-element tuples, or a tuple that holds a    *)
(* Ref to the id it is about to be stored under.                           *)
(***************************************************************************)
RECURSIVE Nest(_)
Nest(j) == IF j = 0 THEN <<>> ELSE <<Op0("TUPLE1")>> \o Nest(j - 1)

MemoPrefixes ==
    {<<>>, <<OpId("BINGET", 0), Op0("TUPLE1")>>}
        \cup {<<BININT1(1)>> \o Nest(j) : j \in 1..MaxNest}

InitMemo ==
    \E prefix \in MemoPrefixes :
        LET o == RunOps(prefix) IN
        /\ stack = o.stack
        /\ memo = o.memo
        /\ status = o.st
        /\ err = o.err
        /\ last = IF prefix = <<>> THEN NoOp ELSE prefix[Len(prefix)]
        /\ remaining = MaxOpsMemo
        /\ result = <<>>
        /\ resolved = FALSE
        /\ walk = NoWalk
        /\ work = <<>>
        /\ input = <<>>
        /\ cursor = 0
        /\ decoded = <<>>
        /\ parsed = "none"

NextMemo ==
    \/ \E op \in OpsOf({"BININT1", "TUPLE1", "STOP"} \cup
                       {"GET", "BINGET", "LONG_BINGET", "PUT", "BINPUT", "LONG_BINPUT"}) :
            Step(op)
    \/ EndOfOps
    \/ Return

SpecMemo == InitMemo /\ [][NextMemo]_vars

(***************************************************************************)
(* SpecLive: evaluate with the code after the loop taken call by call.     *)
(* work is the list of the calls of resolve_all_refs_iter and              *)
(* resolve_all_refs that are still to be made, in the order in which the   *)
(* recursion makes them; walk is the while-let loop of resolve, when a     *)
(* call has entered it.  Each action is one call, or one iteration of the  *)
(* loop.  The vector that evaluate returns at the end is the one that      *)
(* resolve_all_refs_iter computes.                                         *)
(***************************************************************************)
IterCall(depth, vals) == [call |-> "iter", depth |-> depth, vals |-> vals]
OneCall(depth, val) == [call |-> "one", depth |-> depth, val |-> val]

\* A chain walk whose counter stays where it is.
next_count_Stuck(count) == count

\* count += 1
next_count(count) == count + 1

\* The calls that the call c makes, in order (a call on a Ref makes its one
\* call when the chain walk is over).
Callees(c) ==
    IF c.depth >= MAX_DEPTH THEN <<>>
    ELSE IF c.call = "iter"
         THEN [i \in 1..Len(c.vals) |-> OneCall(c.depth + 1, c.vals[i])]
    ELSE CASE c.val.k \in {"App", "Object", "Global"} ->
                <<OneCall(c.depth + 1, c.val.t), IterCall(c.depth + 1, c.val.args)>>
           [] c.val.k = "Build" ->
                <<OneCall(c.depth + 1, c.val.t), OneCall(c.depth + 1, c.val.a)>>
           [] c.val.k = "Seq" -> <<IterCall(c.depth + 1, c.val.args)>>
           [] c.val.k = "PersId" -> <<OneCall(c.depth + 1, c.val.pid)>>
           [] OTHER -> <<>>

\* The code after the loop is entered: without resolve_refs the stack is
\* returned as it is, with it resolve_all_refs_iter(0, stack, true) is called.
Return_Begin ==
    /\ status = "stopped"
    /\ \E resolve_refs \in BOOLEAN :
        /\ resolved' = resolve_refs
        /\ IF resolve_refs
           THEN /\ status' = "resolving"
                /\ work' = <<IterCall(0, stack)>>
                /\ result' = result
           ELSE /\ status' = "ok"
                /\ work' = <<>>
                /\ result' = stack
    /\ UNCHANGED <<stack, memo, err, last, remaining, walk>>
    /\ UNCHANGED decoder

\* The next call of resolve_all_refs_iter or resolve_all_refs is made.
Resolve_Call ==
    /\ status = "resolving"
    /\ ~walk.on
    /\ work # <<>>
    /\ LET c == Head(work) IN
        IF c.depth < MAX_DEPTH /\ c.call = "one" /\ c.val.k = "Ref"
        THEN /\ walk' = [on |-> TRUE, op |-> c.val, count |-> 0, depth |-> c.depth]
             /\ work' = Tail(work)
        ELSE /\ walk' = walk
             /\ work' = Callees(c) \o Tail(work)
    /\ UNCHANGED <<stack, memo, status, err, last, remaining, result, resolved>>
    /\ UNCHANGED decoder

\* One turn of `while let Value::Ref(ref mid) = op` in resolve(val, true),
\* and, when the loop is left, the call rar(..) on what it found.
Resolve_Walk ==
    /\ status = "resolving"
    /\ walk.on
    /\ IF walk.op.k # "Ref"
       THEN /\ work' = <<OneCall(walk.depth + 1, walk.op)>> \o work
            /\ walk' = NoWalk
            /\ UNCHANGED <<status, err>>
       ELSE IF walk.op.id \notin DOMAIN memo
       THEN /\ status' = "error"
            /\ err' = "Bad memo id"
            /\ walk' = NoWalk
            /\ work' = <<>>
       ELSE IF next_count(walk.count) >= MAX_DEPTH
       THEN /\ work' = <<OneCall(walk.depth + 1, memo[walk.op.id])>> \o work
            /\ walk' = NoWalk
            /\ UNCHANGED <<status, err>>
       ELSE /\ walk' = [walk EXCEPT !.op = memo[walk.op.id],
                                    !.count = next_count(walk.count)]
            /\ UNCHANGED <<work, status, err>>
    /\ UNCHANGED <<stack, memo, last, remaining, result, resolved>>
    /\ UNCHANGED decoder

\* The outermost call returns: evaluate returns the resolved vector.
Return_End ==
    /\ status = "resolving"
    /\ ~walk.on
    /\ work = <<>>
    /\ LET r == resolve_all_refs_iter(memo, 0, stack, TRUE) IN
        /\ status' = IF r.ok THEN "ok" ELSE "error"
        /\ err' = IF r.ok THEN "" ELSE r.e
        /\ result' = IF r.ok THEN r.v ELSE <<>>
    /\ UNCHANGED <<stack, memo, last, remaining, resolved, walk, work>>
    /\ UNCHANGED decoder

InitLive == InitFor(MaxOpsLive)

NextLive ==
    \/ \E op \in OpsOf({"BININT1", "BINGET", "BINPUT", "TUPLE1", "TUPLE2", "STOP"}) :
            Step(op)
    \/ EndOfOps
    \/ Return_Begin
    \/ Resolve_Call
    \/ Resolve_Walk
    \/ Return_End

\* evaluate is sequential code: while a step of it is possible, one is taken.
SpecLive == InitLive /\ [][NextLive]_vars /\ WF_vars(NextLive)

(***************************************************************************)
(* SpecResolve: evaluate on slices that start by building a reference      *)
(* chain (the initial states of SpecChain) and go on with the instructions *)
(* that resolve their operands through the memo table: REDUCE, BUILD and   *)
(* STACK_GLOBAL.                                                           *)
(***************************************************************************)
InitResolve == InitChainFor(MaxOpsResolve)

NextResolve ==
    \/ \E op \in OpsOf({"BININT1", "BINPUT", "STOP"} \cup
                       {"REDUCE", "BUILD", "STACK_GLOBAL"}) : Step(op)
    \/ EndOfOps
    \/ Return

SpecResolve == InitResolve /\ [][NextResolve]_vars

(***************************************************************************)
(* SpecShare: evaluate on slices that start by pushing an empty collection *)
(* and memoizing it with MEMOIZE, and go on with append/setitem-family     *)
(* instructions and fetches.  The initial states are the states of the     *)
(* loop after that prefix of the slice.                                    *)
(***************************************************************************)
InitShare ==
    \E tag \in {"EMPTY_LIST", "EMPTY_SET", "EMPTY_DICT"} :
        LET prefix == <<Op0(tag), Op0("MEMOIZE")>>
            o == RunOps(prefix)
        IN  /\ stack = o.stack
            /\ memo = o.memo
            /\ status = o.st
            /\ err = o.err
            /\ last = prefix[Len(prefix)]
            /\ remaining = MaxOpsShare
            /\ result = <<>>
            /\ resolved = FALSE
            /\ walk = NoWalk
            /\ work = <<>>
            /\ input = <<>>
            /\ cursor = 0
            /\ decoded = <<>>
            /\ parsed = "none"

NextShare ==
    \/ \E op \in OpsOf({"MARK", "BININT1", "BINGET", "STOP"} \cup
                       {"APPEND", "APPENDS", "ADDITEMS", "SETITEM", "SETITEMS"}) : Step(op)
    \/ EndOfOps
    \/ Return

SpecShare == InitShare /\ [][NextShare]_vars

(***************************************************************************)
(* SpecCaller: evaluate(ops, false) on slices that start by building a     *)
(* reference chain (the initial states of SpecChain), followed by one call *)
(* that the caller makes on the memo table it got back, with an entry of   *)
(* the returned vector: memo.resolve, memo.resolve_mut or                  *)
(* memo.resolve_all_refs.  work records the call, result holds what it     *)
(* returns (for resolve_mut: the value that the returned reference points  *)
(* at, the place being recorded in work).                                  *)
(***************************************************************************)
InitCaller == InitChainFor(MaxOpsCaller)

Caller_resolve ==
    /\ status = "ok"
    /\ ~resolved
    /\ \E i \in 1..Len(result) : \E recursive \in BOOLEAN :
        LET r == resolve(memo, result[i], recursive) IN
        /\ work' = <<[call |-> "resolve", op |-> result[i], recursive |-> recursive]>>
        /\ status' = IF r.ok THEN "returned" ELSE "failed"
        /\ err' = IF r.ok THEN "" ELSE r.e
        /\ result' = IF r.ok THEN <<r.v>> ELSE <<>>
    /\ UNCHANGED <<stack, memo, last, remaining, resolved, walk>>
    /\ UNCHANGED decoder

Caller_resolve_mut ==
    /\ status = "ok"
    /\ ~resolved
    /\ \E i \in 1..Len(result) : \E recursive \in BOOLEAN :
        LET h == resolve_mut(memo, result[i], recursive) IN
        /\ work' = <<[call |-> "resolve_mut", op |-> result[i], recursive |-> recursive,
                      place |-> h]>>
        /\ status' = CASE h.r = "err" -> "failed"
                       [] h.r = "panic" -> "panic"
                       [] OTHER -> "returned"
        /\ err' = IF h.r \in {"err", "panic"} THEN h.e ELSE ""
        /\ result' = CASE h.r = "top" -> <<result[i]>>
                       [] h.r = "at" -> <<memo[h.id]>>
                       [] OTHER -> <<>>
    /\ UNCHANGED <<stack, memo, last, remaining, resolved, walk>>
    /\ UNCHANGED decoder

Caller_resolve_all_refs ==
    /\ status = "ok"
    /\ ~resolved
    /\ \E i \in 1..Len(result) : \E fix_values \in BOOLEAN :
       \E depth \in {0, MAX_DEPTH - 1, MAX_DEPTH, MAX_DEPTH + 1} :
        LET r == resolve_all_refs(memo, depth, result[i], fix_values) IN
        /\ work' = <<[call |-> "resolve_all_refs", depth |-> depth, val |-> result[i],
                      fix_values |-> fix_values]>>
        /\ status' = IF r.ok THEN "returned" ELSE "failed"
        /\ err' = IF r.ok THEN "" ELSE r.e
        /\ result' = IF r.ok THEN <<r.v>> ELSE <<>>
    /\ UNCHANGED <<stack, memo, last, remaining, resolved, walk>>
    /\ UNCHANGED decoder

NextCaller ==
    \/ \E op \in OpsOf({"BININT1", "BINPUT", "TUPLE1", "STOP"}) : Step(op)
    \/ EndOfOps
    \/ Return
    \/ Caller_resolve
    \/ Caller_resolve_mut
    \/ Caller_resolve_all_refs

SpecCaller == InitCaller /\ [][NextCaller]_vars

(***************************************************************************)
(* ops.rs: mod p_op, the byte of each opcode.                              *)
(***************************************************************************)
p_op ==
    [MARK |-> 40, STOP |-> 46, POP |-> 48, POP_MARK |-> 49, DUP |-> 50,
     FLOAT |-> 70, INT |-> 73, BININT |-> 74, BININT1 |-> 75, LONG |-> 76,
     BININT2 |-> 77, NONE |-> 78, PERSID |-> 80, BINPERSID |-> 81, REDUCE |-> 82,
     STRING |-> 83, BINSTRING |-> 84, SHORT_BINSTRING |-> 85, UNICODE |-> 86,
     BINUNICODE |-> 88, APPEND |-> 97, BUILD |-> 98, GLOBAL |-> 99, DICT |-> 100,
     EMPTY_DICT |-> 125, APPENDS |-> 101, GET |-> 103, BINGET |-> 104, INST |-> 105,
     LONG_BINGET |-> 106, LIST |-> 108, EMPTY_LIST |-> 93, OBJ |-> 111, PUT |-> 112,
     BINPUT |-> 113, LONG_BINPUT |-> 114, SETITEM |-> 115, TUPLE |-> 116,
     EMPTY_TUPLE |-> 41, SETITEMS |-> 117, BINFLOAT |-> 71,
     PROTO |-> 128, NEWOBJ |-> 129, EXT1 |-> 130, EXT2 |-> 131, EXT4 |-> 132,
     TUPLE1 |-> 133, TUPLE2 |-> 134, TUPLE3 |-> 135, NEWTRUE |-> 136,
     NEWFALSE |-> 137, LONG1 |-> 138, LONG4 |-> 139,
     BINBYTES |-> 66, SHORT_BINBYTES |-> 67,
     SHORT_BINUNICODE |-> 140, BINUNICODE8 |-> 141, BINBYTES8 |-> 142,
     EMPTY_SET |-> 143, ADDITEMS |-> 144, FROZENSET |-> 145, NEWOBJ_EX |-> 146,
     STACK_GLOBAL |-> 147, MEMOIZE |-> 148, FRAME |-> 149,
     BYTEARRAY8 |-> 150, NEXT_BUFFER |-> 151, READONLY_BUFFER |-> 152]

(***************************************************************************)
(* parsers.rs.  A nom result is "ok" (the rest of the slice and the value  *)
(* read), "error" (Err::Error, which a combinator may recover from) or     *)
(* "failure" (Err::Failure, which ends the whole parse).                   *)
(***************************************************************************)
POk(rest, v) == [r |-> "ok", rest |-> rest, v |-> v]
PError(e) == [r |-> "error", e |-> e]
PFailure(e) == [r |-> "failure", e |-> e]

\* take(n): the next n bytes.
take(n, i) ==
    IF Len(i) < n THEN PError("Eof")
    ELSE POk(SubSeq(i, n + 1, Len(i)), SubSeq(i, 1, n))

\* u8, le_u16, le_u32, le_u64: an unsigned little-endian integer of n bytes.
\* (The buffers of the model hold integers below 2^31.)
le_uint(n, i) ==
    LET b == take(n, i) IN
    IF b.r # "ok" THEN b ELSE POk(b.rest, from_bytes_le(b.v))

\* le_i16, le_i32: a signed little-endian integer of n bytes.
le_int(n, i) ==
    LET b == take(n, i) IN
    IF b.r # "ok" THEN b
    ELSE LET hi == b.v[n]
             low == from_bytes_le(SubSeq(b.v, 1, n - 1))
         IN  POk(b.rest, low + Pow(256, n - 1) * (IF hi >= 128 THEN hi - 256 ELSE hi))

\* length_data(f): a length of n bytes, read by f, and that many bytes.
length_data(n, i) ==
    LET len == le_uint(n, i) IN
    IF len.r # "ok" THEN len ELSE take(len.v, len.rest)

\* map_res(p, std::str::from_utf8), on the result b of p.
from_utf8(b) ==
    IF b.r # "ok" THEN b
    ELSE IF Utf8Valid(b.v) THEN b
    ELSE PError("MapRes")

\* take_till(|c| c == b'\n'): the bytes before the first line feed, all of
\* them when there is none.
RECURSIVE take_till_nl(_)
take_till_nl(i) ==
    IF i = <<>> \/ Head(i) = 10 THEN <<>> ELSE <<Head(i)>> \o take_till_nl(Tail(i))

parse_string_nl(i) ==
    LET s == take_till_nl(i)
        rest == SubSeq(i, Len(s) + 1, Len(i))
    IN  IF ~Utf8Valid(s) THEN PError("MapRes")
        ELSE IF rest = <<>> THEN PError("Tag")
        ELSE POk(Tail(rest), s)

\* tuple((parse_string_nl, parse_string_nl))
parse_string_nl2(i) ==
    LET mn == parse_string_nl(i) IN
    IF mn.r # "ok" THEN mn
    ELSE LET gn == parse_string_nl(mn.rest) IN
         IF gn.r # "ok" THEN gn ELSE POk(gn.rest, <<mn.v, gn.v>>)

\* The text of a payload as the sequence of its characters.
Utf8Chars(b) == [j \in 1..Len(b) |-> Utf8Char(b[j])]

\* The arms of `match opcode` in parse_op: the constant of p_op that the arm
\* matches, the parser of the argument and the PickleOp variant that the
\* arm constructs.
Arms ==
    { <<"MARK", "none", "MARK">>, <<"STOP", "none", "STOP">>, <<"POP", "none", "POP">>,
      <<"POP_MARK", "none", "POP_MARK">>, <<"DUP", "none", "DUP">>,
      <<"FLOAT", "nl", "FLOAT">>, <<"INT", "nl", "INT">>,
      <<"BININT", "le_i32", "BININT">>, <<"BININT1", "u8", "BININT1">>,
      <<"LONG", "nl", "LONG">>, <<"BININT2", "le_u16", "BININT2">>,
      <<"NONE", "none", "NONE">>, <<"PERSID", "nl", "PERSID">>,
      <<"BINPERSID", "none", "BINPERSID">>, <<"REDUCE", "none", "REDUCE">>,
      <<"STRING", "nl", "STRING">>, <<"BINSTRING", "data_u32", "BINSTRING">>,
      <<"SHORT_BINSTRING", "data_u8", "SHORT_BINSTRING">>,
      <<"UNICODE", "nl", "UNICODE">>, <<"BINUNICODE", "str_u32", "BINUNICODE">>,
      <<"APPEND", "none", "APPEND">>, <<"BUILD", "none", "BUILD">>,
      <<"GLOBAL", "nl2", "GLOBAL">>, <<"DICT", "none", "DICT">>,
      <<"EMPTY_DICT", "none", "EMPTY_DICT">>, <<"APPENDS", "none", "APPENDS">>,
      <<"GET", "nl", "GET">>, <<"BINGET", "u8", "BINGET">>, <<"INST", "nl2", "INST">>,
      <<"LONG_BINGET", "le_u32", "LONG_BINGET">>, <<"LIST", "none", "LIST">>,
      <<"EMPTY_LIST", "none", "EMPTY_LIST">>, <<"OBJ", "none", "OBJ">>,
      <<"PUT", "nl", "PUT">>, <<"BINPUT", "u8", "BINPUT">>,
      <<"LONG_BINPUT", "le_u32", "LONG_BINPUT">>, <<"SETITEM", "none", "SETITEM">>,
      <<"TUPLE", "none", "TUPLE">>, <<"EMPTY_TUPLE", "none", "EMPTY_TUPLE">>,
      <<"SETITEMS", "none", "SETITEMS">>, <<"BINFLOAT", "le_f64", "BINFLOAT">>,
      <<"PROTO", "u8", "PROTO">>, <<"NEWOBJ", "none", "NEWOBJ">>,
      <<"EXT1", "u8", "EXT1">>, <<"EXT2", "le_i16", "EXT2">>,
      <<"EXT4", "le_i32", "EXT4">>, <<"TUPLE1", "none", "TUPLE1">>,
      <<"TUPLE2", "none", "TUPLE2">>, <<"TUPLE3", "none", "TUPLE3">>,
      <<"NEWTRUE", "none", "NEWTRUE">>, <<"NEWFALSE", "none", "NEWFALSE">>,
      <<"LONG1", "data_u8", "LONG1">>, <<"LONG4", "data_u32", "LONG4">>,
      <<"BINBYTES", "data_u32", "BINBYTES">>, <<"BINBYTES8", "data_u64", "BINBYTES8">>,
      <<"SHORT_BINBYTES", "data_u8", "SHORT_BINBYTES">>,
      <<"BINUNICODE8", "str_u64", "BINUNICODE8">>,
      <<"SHORT_BINUNICODE", "str_u8", "BINUNICODE8">>,
      <<"EMPTY_SET", "none", "EMPTY_SET">>, <<"ADDITEMS", "none", "ADDITEMS">>,
      <<"FROZENSET", "none", "FROZENSET">>, <<"NEWOBJ_EX", "none", "NEWOBJ_EX">>,
      <<"STACK_GLOBAL", "none", "STACK_GLOBAL">>, <<"MEMOIZE", "none", "MEMOIZE">>,
      <<"FRAME", "le_u64", "FRAME">>, <<"BYTEARRAY8", "data_u64", "BYTEARRAY8">>,
      <<"NEXT_BUFFER", "none", "NEXT_BUFFER">>,
      <<"READONLY_BUFFER", "none", "READONLY_BUFFER">> }

\* The parser of an arm, applied to the slice behind the opcode.
parse_arg(rule, i) ==
    CASE rule = "none" -> POk(i, <<>>)
      [] rule = "nl" -> parse_string_nl(i)
      [] rule = "nl2" -> parse_string_nl2(i)
      [] rule = "u8" -> le_uint(1, i)
      [] rule = "le_u16" -> le_uint(2, i)
      [] rule = "le_u32" -> le_uint(4, i)
      [] rule = "le_u64" -> le_uint(8, i)
      [] rule = "le_i16" -> le_int(2, i)
      [] rule = "le_i32" -> le_int(4, i)
      [] rule = "le_f64" -> take(8, i)      \* a float is modelled by its bytes
      [] rule = "data_u8" -> length_data(1, i)
      [] rule = "data_u32" -> length_data(4, i)
      [] rule = "data_u64" -> length_data(8, i)
      [] rule = "str_u8" -> from_utf8(length_data(1, i))
      [] rule = "str_u32" -> from_utf8(length_data(4, i))
      [] rule = "str_u64" -> from_utf8(length_data(8, i))

\* The PickleOp that an arm constructs from the value v of its parser.
PickleOp(variant, rule, v) ==
    CASE rule = "none" -> Op0(variant)
      [] rule = "nl2" -> OpNames(variant, Utf8Text(v[1]), Utf8Text(v[2]))
      [] rule = "nl" -> IF variant \in {"GET", "PUT", "INT", "LONG", "FLOAT"}
                        THEN OpTxt(variant, Utf8Chars(v))
                        ELSE OpStr(variant, Utf8Text(v))
      [] rule \in {"str_u8", "str_u32", "str_u64"} -> OpStr(variant, Utf8Text(v))
      [] rule \in {"data_u8", "data_u32", "data_u64"} -> OpBytes(variant, v)
      [] rule = "le_f64" -> [tag |-> variant, f |-> v]
      [] OTHER -> IF variant \in {"BINGET", "LONG_BINGET", "BINPUT", "LONG_BINPUT"}
                  THEN OpId(variant, v)
                  ELSE OpInt(variant, v)

\* A parse_op whose bad-opcode arm is not cut: Err::Error instead of
\* Err::Failure.
parse_op_NoCut(i) ==
    IF i = <<>> THEN PError("Eof")
    ELSE IF \A arm \in Arms : p_op[arm[1]] # Head(i) THEN PError("Bad opcode")
    ELSE LET arm == CHOOSE arm \in Arms : p_op[arm[1]] = Head(i)
             a == parse_arg(arm[2], Tail(i))
         IN  IF a.r # "ok" THEN a ELSE POk(a.rest, PickleOp(arm[3], arm[2], a.v))

parse_op(i) ==
    IF i = <<>> THEN PError("Eof")
    ELSE IF \A arm \in Arms : p_op[arm[1]] # Head(i) THEN PFailure("Bad opcode")
    ELSE LET arm == CHOOSE arm \in Arms : p_op[arm[1]] = Head(i)
             a == parse_arg(arm[2], Tail(i))
         IN  IF a.r # "ok" THEN a ELSE POk(a.rest, PickleOp(arm[3], arm[2], a.v))

(***************************************************************************)
(* SpecDecode: parse_ops on a byte buffer and, when it succeeds, evaluate  *)
(* on the instructions it returned (lib.rs:13-14, torch.rs:170-176).       *)
(*                                                                         *)
(* The buffers: a lead of whole opcodes, then one opcode of any kind with  *)
(* its argument or a byte that is no opcode, then nothing or a STOP; or a  *)
(* lead and one opcode whose argument is cut short.                        *)
(***************************************************************************)
\* Arguments in their wire form, for each parser of an argument.
ArgSamples(rule) ==
    CASE rule = "none" -> {<<>>}
      [] rule = "nl" -> {<<10>>, <<48, 49, 10>>}
      [] rule = "nl2" -> {<<97, 10, 98, 10>>}
      [] rule = "u8" -> {<<1>>, <<200>>}
      [] rule = "le_u16" -> {<<1, 2>>}
      [] rule = "le_u32" -> {<<1, 0, 0, 0>>, <<0, 1, 0, 0>>}
      [] rule = "le_u64" -> {<<1, 0, 0, 0, 0, 0, 0, 0>>}
      [] rule = "le_i16" -> {<<1, 2>>, <<255, 255>>}
      [] rule = "le_i32" -> {<<1, 0, 0, 0>>, <<254, 255, 255, 255>>}
      [] rule = "le_f64" -> {<<0, 0, 0, 0, 0, 0, 240, 63>>}
      [] rule = "data_u8" -> {<<0>>, <<2, 97, 255>>, <<1, 128>>, <<1, 16>>}
      [] rule = "data_u32" -> {<<2, 0, 0, 0, 97, 255>>, <<1, 0, 0, 0, 128>>}
      [] rule = "data_u64" -> {<<1, 0, 0, 0, 0, 0, 0, 0, 255>>}
      [] rule = "str_u8" -> {<<0>>, <<2, 97, 98>>}
      [] rule = "str_u32" -> {<<1, 0, 0, 0, 97>>}
      [] rule = "str_u64" -> {<<1, 0, 0, 0, 0, 0, 0, 0, 98>>}

\* The argument parsers of parse_op.
Rules == {arm[2] : arm \in Arms}

\* The whole opcodes of the arms with one of the given argument parsers.
EncodingsOf(rules) ==
    UNION {{<<p_op[arm[1]]>> \o a : a \in ArgSamples(arm[2])} :
           arm \in {x \in Arms : x[2] \in rules}}

\* The opcodes cut short: the tag and a part of the argument.
TruncationsOf(rules) ==
    UNION {{SubSeq(e, 1, n) : n \in 1..(Len(e) - 1)} : e \in EncodingsOf(rules)}

\* EMPTY_DICT, BININT1 1, MEMOIZE and STOP, up to n of them in a row.
RECURSIVE Leads(_)
Leads(n) ==
    IF n = 0 THEN {<<>>}
    ELSE Leads(n - 1)
         \cup {l \o e : l \in Leads(n - 1), e \in {<<125>>, <<75, 1>>, <<148>>, <<46>>}}

\* (The bytes 0, 10, 153 and 255 are no opcode.  Nothing follows an opcode
\* that is cut short: the bytes behind it would be read as the rest of its
\* argument.)
Buffers ==
    {lead \o mid \o post :
        lead \in Leads(MaxLead),
        mid \in EncodingsOf(Rules) \cup {<<0>>, <<10>>, <<153>>, <<255>>} \cup {<<>>},
        post \in {<<>>, <<46>>}}
    \cup {lead \o mid : lead \in Leads(MaxLead), mid \in TruncationsOf(Rules)}

InitDecode ==
    /\ input \in Buffers
    /\ cursor = 0
    /\ decoded = <<>>
    /\ parsed = "parsing"
    /\ stack = <<>>
    /\ memo = EmptyMemo
    /\ status = "run"
    /\ err = ""
    /\ last = NoOp
    /\ remaining = 0
    /\ result = <<>>
    /\ resolved = FALSE
    /\ walk = NoWalk
    /\ work = <<>>

\* The slice i of parse_ops: the buffer from the cursor on.
Slice == SubSeq(input, cursor + 1, Len(input))

\* A many1 that gives up on an Err::Error behind the first element as it
\* does on the first element.
many1_end_Strict(r, acc) ==
    CASE r.r = "failure" -> "failure"
      [] r.r = "error" -> "error"
      [] OTHER -> "error"

\* many1: how the loop ends on the result r of the element parser, acc being
\* the elements so far.  Err::Error on the first element is an error, behind
\* it the end of the list; Err::Failure is passed on; an element that
\* consumed nothing is an error.
many1_end(r, acc) ==
    CASE r.r = "failure" -> "failure"
      [] r.r = "error" -> IF acc = <<>> THEN "error" ELSE "ok"
      [] OTHER -> "error"

\* many1(parse_op): one more element.
parse_ops_Element ==
    /\ parsed = "parsing"
    /\ LET r == parse_op(Slice) IN
        /\ r.r = "ok"
        /\ Len(r.rest) # Len(Slice)
        /\ decoded' = Append(decoded, r.v)
        /\ cursor' = Len(input) - Len(r.rest)
    /\ UNCHANGED <<input, parsed>>
    /\ UNCHANGED <<stack, memo, status, err, last, remaining, result, resolved, walk, work>>

\* many1(parse_op) returns; on success evaluate is entered with the
\* instructions it returned.
parse_ops_Return ==
    /\ parsed = "parsing"
    /\ LET r == parse_op(Slice) IN
        /\ r.r = "ok" => Len(r.rest) = Len(Slice)
        /\ parsed' = many1_end(r, decoded)
    /\ remaining' = IF parsed' = "ok" THEN Len(decoded) ELSE 0
    /\ UNCHANGED <<input, cursor, decoded>>
    /\ UNCHANGED <<stack, memo, status, err, last, result, resolved, walk, work>>

NextDecode ==
    \/ parse_ops_Element
    \/ parse_ops_Return
    \/ parsed = "ok" /\ remaining > 0 /\ Step(decoded[Len(decoded) - remaining + 1])
    \/ parsed = "ok" /\ EndOfOps
    \/ Return

SpecDecode == InitDecode /\ [][NextDecode]_vars

(***************************************************************************)
(* Vocabulary of the properties.                                           *)
(***************************************************************************)
\* A loop iteration is being taken, on the instruction last'.
Iteration == status = "run" /\ remaining' = remaining - 1

\* The marker nearest to the top of s (0 when s holds none), said without
\* find_mark: the position of a marker above which no marker lies.
TopMark(s) ==
    IF \E i \in 1..Len(s) : s[i].k = "Raw" /\ s[i].op.tag = "MARK"
    THEN CHOOSE i \in 1..Len(s) :
            /\ s[i].k = "Raw" /\ s[i].op.tag = "MARK"
            /\ \A j \in (i + 1)..Len(s) : ~(s[j].k = "Raw" /\ s[j].op.tag = "MARK")
    ELSE 0

Below(s, i) == SubSeq(s, 1, i - 1)
Above(s, i) == SubSeq(s, i + 1, Len(s))

TupleOf(items) == [k |-> "Seq", st |-> "Tuple", args |-> items]

\* The number of operands that a fixed-arity instruction takes from the stack.
Arity(op) ==
    CASE op.tag \in {"POP", "DUP", "BINPERSID", "BINPUT", "LONG_BINPUT", "TUPLE1",
                     "MEMOIZE"} -> 1
      [] op.tag \in {"REDUCE", "BUILD", "TUPLE2", "APPEND", "NEWOBJ",
                     "STACK_GLOBAL"} -> 2
      [] op.tag \in {"TUPLE3", "SETITEM", "NEWOBJ_EX"} -> 3
      [] OTHER -> 0

\* The instruction op needs a value that the stack s does not hold.
TooFewOperands(op, s) ==
    \/ Len(s) < Arity(op)
    \/ op.tag = "OBJ" /\ TopMark(s) # 0 /\ Above(s, TopMark(s)) = <<>>

(***************************************************************************)
(* C1.  Stack underflow is always an error, never a panic: whenever an     *)
(* instruction needs a value the stack does not hold (a pop on an empty    *)
(* stack, a fixed-arity instruction on a too-short stack, OBJ with no      *)
(* value above the most recent MARK), evaluate returns an error.           *)
(***************************************************************************)
C1_UnderflowIsError ==
    [][(Iteration /\ TooFewOperands(last', stack)) => status' = "error"]_vars

(***************************************************************************)
(* Vocabulary of C2 and C3: the receiver of an append/setitem-family       *)
(* instruction and the reference chain that starts at it.                  *)
(***************************************************************************)
Family == {"APPEND", "APPENDS", "ADDITEMS", "SETITEM", "SETITEMS"}

\* The position of the stack entry that the instruction op adds to: the entry
\* under the operands (0 when the stack holds no such entry).
ReceiverIdx(op, s) ==
    CASE op.tag = "APPEND" -> IF Len(s) >= 2 THEN Len(s) - 1 ELSE 0
      [] op.tag = "SETITEM" -> IF Len(s) >= 3 THEN Len(s) - 2 ELSE 0
      [] op.tag \in {"APPENDS", "ADDITEMS", "SETITEMS"} ->
            IF TopMark(s) >= 2 THEN TopMark(s) - 1 ELSE 0
      [] OTHER -> 0

\* The items that APPEND, APPENDS and ADDITEMS add, in push order.
AddedItems(op, s) ==
    IF op.tag = "APPEND" THEN <<s[Len(s)]>> ELSE Above(s, TopMark(s))

\* The chain of memo entries that starts at id: where it ends ("absent": an
\* id the table does not hold; "value": an entry that is no Ref; "cycle"),
\* the id it ends at and the number of Ref entries passed on the way.
RECURSIVE Follow(_, _, _, _)
Follow(m, id, hops, fuel) ==
    IF id \notin DOMAIN m THEN [end |-> "absent", id |-> id, hops |-> hops]
    ELSE IF m[id].k # "Ref" THEN [end |-> "value", id |-> id, hops |-> hops]
    ELSE IF fuel = 0 THEN [end |-> "cycle", id |-> id, hops |-> hops]
    ELSE Follow(m, m[id].id, hops + 1, fuel - 1)

Chain(m, id) == Follow(m, id, 0, Cardinality(DOMAIN m))

(***************************************************************************)
(* C2.  When the receiver of APPEND, APPENDS, ADDITEMS, SETITEM or         *)
(* SETITEMS is a Ref whose reference chain reaches an id that is absent    *)
(* from the memo table, evaluate returns an error and does not panic,      *)
(* whatever the length of the chain (the depth bound included).            *)
(***************************************************************************)
C2_AbsentIdIsError ==
    [][(/\ Iteration
        /\ last'.tag \in Family
        /\ ReceiverIdx(last', stack) # 0
        /\ stack[ReceiverIdx(last', stack)].k = "Ref"
        /\ Chain(memo, stack[ReceiverIdx(last', stack)].id).end = "absent")
       => status' = "error"]_vars

(***************************************************************************)
(* C3.  When the receiver of APPEND, APPENDS or ADDITEMS is a Ref at the   *)
(* head of a chain of fewer than MAX_DEPTH Refs that ends at a memoized    *)
(* Seq or Global, the items are added, in push order, to the argument list *)
(* of that memo entry and to nothing else; the receiver stays on the stack *)
(* as the Ref it was, and resolving it (or the id of the entry) afterwards *)
(* yields the collection with the items included.                          *)
(***************************************************************************)
C3_AppendThroughChain ==
    [][(/\ Iteration
        /\ last'.tag \in {"APPEND", "APPENDS", "ADDITEMS"}
        /\ ReceiverIdx(last', stack) # 0
        /\ stack[ReceiverIdx(last', stack)].k = "Ref"
        /\ LET c == Chain(memo, stack[ReceiverIdx(last', stack)].id) IN
            /\ c.end = "value"
            /\ c.hops + 1 < MAX_DEPTH
            /\ memo[c.id].k \in {"Seq", "Global"})
       => LET r == ReceiverIdx(last', stack)
              c == Chain(memo, stack[r].id)
              extended == [memo[c.id] EXCEPT !.args = @ \o AddedItems(last', stack)]
          IN  /\ status' = "run"
              /\ stack' = SubSeq(stack, 1, r)
              /\ stack'[Len(stack')].k = "Ref"
              /\ memo' = [memo EXCEPT ![c.id] = extended]
              /\ resolve(memo', stack'[Len(stack')], TRUE) = Ok(extended)
              /\ resolve(memo', Ref(c.id), TRUE) = Ok(extended)]_vars

\* APPENDS has added 1 and 2, in that order, to the list at the end of the
\* longest chain of fewer than MAX_DEPTH Refs.
C3_Witness ==
    /\ status = "run"
    /\ last.tag = "APPENDS"
    /\ stack = <<Ref(0)>>
    /\ DOMAIN memo = 0..(MAX_DEPTH - 2)
    /\ \A i \in 0..(MAX_DEPTH - 3) : memo[i] = Ref(i + 1)
    /\ memo[MAX_DEPTH - 2] = SeqV("List", <<Raw(BININT1(1)), Raw(BININT1(2))>>)

(***************************************************************************)
(* C4.  In every state of the evaluator, every Seq of kind Dict on the     *)
(* operand stack or in the memo table, at any nesting depth, has only      *)
(* 2-element Tuple nodes as its items.                                     *)
(***************************************************************************)
IsPair(v) == v.k = "Seq" /\ v.st = "Tuple" /\ Len(v.args) = 2

RECURSIVE DictsHoldPairs(_)
DictsHoldPairs(v) ==
    CASE v.k = "Seq" ->
            /\ v.st = "Dict" => \A i \in 1..Len(v.args) : IsPair(v.args[i])
            /\ \A i \in 1..Len(v.args) : DictsHoldPairs(v.args[i])
      [] v.k \in {"App", "Object", "Global"} ->
            /\ DictsHoldPairs(v.t)
            /\ \A i \in 1..Len(v.args) : DictsHoldPairs(v.args[i])
      [] v.k = "Build" -> DictsHoldPairs(v.t) /\ DictsHoldPairs(v.a)
      [] v.k = "PersId" -> DictsHoldPairs(v.pid)
      [] OTHER -> TRUE

C4_DictItemsArePairs ==
    /\ \A i \in 1..Len(stack) : DictsHoldPairs(stack[i])
    /\ \A id \in DOMAIN memo : DictsHoldPairs(memo[id])

(***************************************************************************)
(* C5.  DICT, with 2n values k1, v1, ..., kn, vn above the most recent     *)
(* marker, replaces the marker and the values by one Seq(Dict, ..) whose   *)
(* items are the n Tuples (ki, vi) in push order (never the flat list) and *)
(* leaves the entries below the marker as they are; with an odd number of  *)
(* values above the marker evaluate fails with an error.                   *)
(***************************************************************************)
C5_DictPairsInPushOrder ==
    [][(Iteration /\ last'.tag = "DICT" /\ TopMark(stack) # 0)
       => LET mk == TopMark(stack)
              vals == Above(stack, mk)
              n == Len(vals) \div 2
          IN  IF Len(vals) % 2 = 0
              THEN /\ status' = "run"
                   /\ stack' = Append(Below(stack, mk),
                                      [k |-> "Seq", st |-> "Dict",
                                       args |-> [i \in 1..n |->
                                           TupleOf(<<vals[2 * i - 1], vals[2 * i]>>)]])
              ELSE status' = "error"]_vars

\* MARK, 1, 2, 2, 1, DICT has left the dict {1: 2, 2: 1} alone on the stack.
C5_Witness ==
    /\ status = "run"
    /\ last.tag = "DICT"
    /\ stack = <<SeqV("Dict", <<TupleOf(<<Raw(BININT1(1)), Raw(BININT1(2))>>),
                                TupleOf(<<Raw(BININT1(2)), Raw(BININT1(1))>>)>>)>>

(***************************************************************************)
(* C6.  TUPLE, with n values above the most recent marker, replaces the    *)
(* marker and the values by one Seq(Tuple, ..) that holds the n values in  *)
(* push order, and leaves the entries below the marker and the memo table  *)
(* as they are; MARK, a, b, c, TUPLE on an empty stack leaves exactly the  *)
(* 3-tuple (a, b, c).                                                      *)
(***************************************************************************)
C6_TupleKeepsPushOrder ==
    [][(Iteration /\ last'.tag = "TUPLE" /\ TopMark(stack) # 0)
       => /\ status' = "run"
          /\ stack' = Append(Below(stack, TopMark(stack)),
                             TupleOf(Above(stack, TopMark(stack))))
          /\ memo' = memo
          /\ (TopMark(stack) = 1 /\ Len(stack) = 4)
                => stack' = <<TupleOf(<<stack[2], stack[3], stack[4]>>)>>]_vars

\* MARK, 1, 2, 2, TUPLE has left the 3-tuple (1, 2, 2) alone on the stack.
C6_Witness ==
    /\ status = "run"
    /\ last.tag = "TUPLE"
    /\ stack = <<TupleOf(<<Raw(BININT1(1)), Raw(BININT1(2)), Raw(BININT1(2))>>)>>

(***************************************************************************)
(* C7.  TUPLE1, TUPLE2 and TUPLE3 on a stack of at least 1, 2 and 3        *)
(* values pop exactly that many values and push one Seq(Tuple, ..) that    *)
(* lists them in push order: the most recently pushed value is the last    *)
(* element.                                                                *)
(***************************************************************************)
TupleArity(op) ==
    CASE op.tag = "TUPLE1" -> 1 [] op.tag = "TUPLE2" -> 2 [] op.tag = "TUPLE3" -> 3

C7_FixedTuplesKeepPushOrder ==
    [][(/\ Iteration
        /\ last'.tag \in {"TUPLE1", "TUPLE2", "TUPLE3"}
        /\ Len(stack) >= TupleArity(last'))
       => LET n == TupleArity(last') IN
          /\ status' = "run"
          /\ stack' = Append(SubSeq(stack, 1, Len(stack) - n),
                             TupleOf(SubSeq(stack, Len(stack) - n + 1, Len(stack))))]_vars

(***************************************************************************)
(* C8.  As the claim has it: GLOBAL(module, name) pushes a Global node     *)
(* whose callee names (module, name) and whose argument list is empty.     *)
(***************************************************************************)
C8_GlobalPushesGlobalNode ==
    [][(Iteration /\ last'.tag = "GLOBAL")
       => /\ status' = "run"
          /\ stack' = Append(stack,
                [k |-> "Global",
                 t |-> TupleOf(<<[k |-> "String", s |-> last'.mn],
                                 [k |-> "String", s |-> last'.gn]>>),
                 args |-> <<>>])]_vars

(***************************************************************************)
(* C8, amended.  GLOBAL(module, name) has no arm of its own in evaluate:   *)
(* it pushes the instruction itself as a Raw value, Raw(GLOBAL(module,     *)
(* name)), and leaves the rest of the stack and the memo table as they     *)
(* are; eager resolution does not change that value, so that               *)
(* GLOBAL("builtins", "int") followed by STOP returns exactly              *)
(* [Raw(GLOBAL("builtins", "int"))].                                       *)
(***************************************************************************)
C8_GlobalPushesRaw ==
    [][/\ (Iteration /\ last'.tag = "GLOBAL")
            => /\ status' = "run"
               /\ stack' = Append(stack, [k |-> "Raw", op |-> last'])
               /\ memo' = memo
       /\ (/\ status = "stopped"
           /\ status' # "stopped"
           /\ last.tag = "STOP"
           /\ Len(stack) = 1
           /\ stack[1].k = "Raw"
           /\ stack[1].op.tag = "GLOBAL")
            => /\ status' = "ok"
               /\ result' = <<[k |-> "Raw", op |-> stack[1].op]>>]_vars

\* GLOBAL("builtins", "int"), STOP has returned, with eager resolution.
C8_Witness ==
    /\ status = "ok"
    /\ resolved
    /\ last.tag = "STOP"
    /\ stack = <<Raw(GLOBAL("builtins", "int"))>>
    /\ result = <<Raw(GLOBAL("builtins", "int"))>>

(***************************************************************************)
(* Vocabulary of C9: a store followed by a fetch of the same id, and the   *)
(* nesting of a value.                                                     *)
(***************************************************************************)
IsPut(op) == op.tag \in {"PUT", "BINPUT", "LONG_BINPUT"}
IsGet(op) == op.tag \in {"GET", "BINGET", "LONG_BINGET"}

\* The memo id of a store or fetch instruction that evaluate accepted.
OpMemoId(op) == IF op.tag \in {"PUT", "GET"} THEN ParseU32(op.txt).v ELSE op.id

Max2(a, b) == IF a >= b THEN a ELSE b

\* The number of levels of v: one for each Ref followed and for each single
\* child (callee, state, persistent id), two for the items of a list of
\* arguments.  A value that goes on for more than fuel levels (a reference
\* cycle, for one) counts MAX_DEPTH levels.
RECURSIVE Levels(_, _, _)
Levels(m, v, fuel) ==
    IF fuel <= 0 THEN MAX_DEPTH
    ELSE LET OfItems(items) ==
                 IF items = <<>> THEN 1
                 ELSE 2 + Levels(m, items[CHOOSE i \in 1..Len(items) :
                                     \A j \in 1..Len(items) :
                                        Levels(m, items[j], fuel - 2)
                                            <= Levels(m, items[i], fuel - 2)],
                                 fuel - 2)
         IN  CASE v.k = "Ref" ->
                    IF v.id \in DOMAIN m THEN 1 + Levels(m, m[v.id], fuel - 1) ELSE 0
               [] v.k = "Seq" -> OfItems(v.args)
               [] v.k \in {"App", "Object", "Global"} ->
                    Max2(1 + Levels(m, v.t, fuel - 1), OfItems(v.args))
               [] v.k = "Build" ->
                    1 + Max2(Levels(m, v.t, fuel - 1), Levels(m, v.a, fuel - 1))
               [] v.k = "PersId" -> 1 + Levels(m, v.pid, fuel - 1)
               [] OTHER -> 0

\* v, fetched through a Ref on the stack, is resolved to its last level
\* before the depth bound is reached.
Shallow(m, v) == 2 + Levels(m, v, MAX_DEPTH) < MAX_DEPTH

\* The step that fetches id n right after the step that stored under id n.
FetchAfterStore ==
    /\ Iteration
    /\ IsPut(last)
    /\ IsGet(last')
    /\ status' = "run"
    /\ OpMemoId(last) = OpMemoId(last')

(***************************************************************************)
(* C9.  As the claim has it: after a value V is pushed, stored under id n  *)
(* and fetched from id n, eager resolution (when it succeeds) yields two   *)
(* equal values at the two stack positions, both equal to the normalized   *)
(* V, i.e. to what V resolves to as a stack entry.                         *)
(***************************************************************************)
C9_FetchEqualsNormalized ==
    [][FetchAfterStore
       => LET V == memo[OpMemoId(last)]
              top == Len(stack')
              r == resolve_all_refs_iter(memo', 0, stack', TRUE)
              nv == resolve_all_refs(memo', 1, V, TRUE)
          IN  r.ok => /\ nv.ok
                      /\ r.v[top - 1] = r.v[top]
                      /\ r.v[top] = nv.v]_vars

(***************************************************************************)
(* C9, amended.  The store replaces V on the stack by Ref(n) and the fetch *)
(* pushes a second Ref(n), the memo table holding V under n.  When eager   *)
(* resolution succeeds it yields two equal values at the two positions;    *)
(* they are equal to the normalized V provided V is shallow: resolved      *)
(* through the Ref, one level deeper than as a stack entry, it is still    *)
(* resolved to its last level before the depth bound MAX_DEPTH is reached. *)
(***************************************************************************)
C9_FetchEqualsNormalizedIfShallow ==
    [][FetchAfterStore
       => LET n == OpMemoId(last)
              V == memo[n]
              top == Len(stack')
              r == resolve_all_refs_iter(memo', 0, stack', TRUE)
              nv == resolve_all_refs(memo', 1, V, TRUE)
          IN  /\ memo' = memo
              /\ top = Len(stack) + 1
              /\ stack'[top - 1] = [k |-> "Ref", id |-> n]
              /\ stack'[top] = [k |-> "Ref", id |-> n]
              /\ r.ok => r.v[top - 1] = r.v[top]
              /\ (r.ok /\ Shallow(memo, V)) => (nv.ok /\ r.v[top] = nv.v)]_vars

\* 1, TUPLE1, BINPUT(0), BINGET(0), STOP has run, and evaluate has returned with
\* eager resolution: the tuple (1), normalized, at both positions.
C9_Witness ==
    /\ status = "ok"
    /\ resolved
    /\ last = Op0("STOP")
    /\ stack = <<Ref(0), Ref(0)>>
    /\ memo[0] = SeqV("Tuple", <<Raw(BININT1(1))>>)
    /\ Shallow(memo, memo[0])
    /\ result = <<SeqV("Tuple", <<IntV(1)>>), SeqV("Tuple", <<IntV(1)>>)>>

(***************************************************************************)
(* C10.  Resolve and Resolve-all terminate on every memo table, reference  *)
(* cycles (Ref(1) -> Ref(2) -> .. -> Ref(1)) and collections that hold a   *)
(* Ref to themselves included: every run of evaluate, with eager           *)
(* resolution or without, eventually returns (a vector or an error),       *)
(* because no chain walk counts MAX_DEPTH hops or more and no call is made *)
(* at a depth beyond MAX_DEPTH.                                            *)
(***************************************************************************)
Returned == status \in {"ok", "error"}

WithinDepthBound ==
    /\ walk.on => walk.count < MAX_DEPTH /\ walk.depth < MAX_DEPTH
    /\ \A i \in 1..Len(work) : work[i].depth <= MAX_DEPTH

C10_ResolutionTerminates == []WithinDepthBound /\ <>Returned

\* evaluate has returned, with eager resolution, on the memo table of the
\* cycle Ref(0) -> Ref(1) -> Ref(0): what is left of the Ref on the stack is
\* a Ref.
C10_Witness ==
    /\ status = "ok"
    /\ resolved
    /\ stack = <<Ref(1)>>
    /\ memo = [id \in {0, 1} |-> Ref(1 - id)]
    /\ Len(result) = 1
    /\ result[1].k = "Ref"

(***************************************************************************)
(* Vocabulary of C11: the two operands that REDUCE, BUILD and STACK_GLOBAL *)
(* resolve, as they stand in the node that the instruction pushes.         *)
(***************************************************************************)
Resolvers == {"REDUCE", "BUILD", "STACK_GLOBAL"}

\* <<what the stack top was resolved to, what the entry under it was>>
ResolvedOperands(op, node) ==
    CASE op.tag = "REDUCE" -> <<node.args[1], node.t>>
      [] op.tag = "BUILD" -> <<node.a, node.t>>
      [] op.tag = "STACK_GLOBAL" -> <<node.t.args[1], node.t.args[2]>>

\* A step of REDUCE, BUILD or STACK_GLOBAL that did not fail.
ResolverStep ==
    /\ Iteration
    /\ last'.tag \in Resolvers
    /\ Len(stack) >= 2
    /\ status' = "run"

\* The chain that starts at the value x ends at a value that is no Ref, and
\* x and the memo entries passed on the way are at most MAX_DEPTH Refs.
EndsWithinBound(m, x) ==
    x.k = "Ref" => /\ Chain(m, x.id).end = "value"
                   /\ Chain(m, x.id).hops + 1 <= MAX_DEPTH

\* The value at the end of the chain that starts at x.
ChainValue(m, x) == IF x.k = "Ref" THEN m[Chain(m, x.id).id] ELSE x

(***************************************************************************)
(* C11.  As the claim has it: what resolve(.., true) returns on success is *)
(* never a Ref, whether the chain ran to its end or the depth bound was    *)
(* hit.                                                                    *)
(***************************************************************************)
C11_ResolveNeverReturnsRef ==
    [][ResolverStep
       => LET r == ResolvedOperands(last', stack'[Len(stack')]) IN
          r[1].k # "Ref" /\ r[2].k # "Ref"]_vars

(***************************************************************************)
(* C11, amended.  resolve(.., true) returns the value at the end of the    *)
(* reference chain, which is no Ref, exactly when the chain ends within    *)
(* the depth bound: the starting Ref and the memo entries that hold the    *)
(* chain are at most MAX_DEPTH Refs.  On a longer chain, and on a cycle,   *)
(* it succeeds as well and returns a Ref (the entry found by the           *)
(* MAX_DEPTH-th lookup).                                                   *)
(***************************************************************************)
C11_ResolveReturnsRefOnlyAtBound ==
    [][ResolverStep
       => LET r == ResolvedOperands(last', stack'[Len(stack')])
              x == <<stack[Len(stack)], stack[Len(stack) - 1]>>
          IN  \A i \in 1..2 :
                IF EndsWithinBound(memo, x[i])
                THEN r[i] = ChainValue(memo, x[i]) /\ r[i].k # "Ref"
                ELSE r[i].k = "Ref"]_vars

\* BUILD has resolved its target through a chain of exactly MAX_DEPTH Refs
\* (Ref(0) on the stack, MAX_DEPTH - 1 Refs in the memo table) to the list
\* at its end.
C11_Witness ==
    /\ status = "run"
    /\ last.tag = "BUILD"
    /\ stack = <<Build(SeqV("List", <<>>), Raw(BININT1(1)))>>
    /\ DOMAIN memo = 0..(MAX_DEPTH - 1)
    /\ \A i \in 0..(MAX_DEPTH - 2) : memo[i] = Ref(i + 1)

(***************************************************************************)
(* Vocabulary of C12.                                                      *)
(***************************************************************************)
\* The value x, resolved through the memo table m, is a value that is
\* neither a Global nor a Seq: x itself when it is no Ref, the entry at the
\* end of its chain, or the Ref at which resolution gives up on a chain of
\* more than MAX_DEPTH Ref entries.
ResolvesToNoCollection(m, x) ==
    IF x.k # "Ref" THEN x.k \notin {"Global", "Seq"}
    ELSE LET c == Chain(m, x.id) IN
         /\ c.end = "value"
         /\ m[c.id].k \notin {"Global", "Seq"} \/ c.hops > MAX_DEPTH

\* The error of each instruction of the family for such a stack top.
BadStackTop(op) ==
    CASE op.tag = "APPEND" -> "Bad stack top for APPEND!"
      [] op.tag = "APPENDS" -> "Bad stack top for APPENDS"
      [] op.tag = "ADDITEMS" -> "Bad stack top for ADDITEMS"
      [] op.tag = "SETITEM" -> "Bad stack top for SETITEM!"
      [] op.tag = "SETITEMS" -> "Bad stack top for SETITEMS"

\* The operands of op are well formed: SETITEMS has an even number of them.
PairedOperands(op, s) ==
    op.tag = "SETITEMS" => Len(Above(s, TopMark(s))) % 2 = 0

(***************************************************************************)
(* C12.  APPEND, APPENDS, ADDITEMS, SETITEM and SETITEMS fail whenever the *)
(* stack top under their operands, resolved through references, is neither *)
(* a Global nor a Seq: evaluate ends with an error at that instruction,    *)
(* returns no value, and the error is the bad-stack-top error of the       *)
(* instruction (for SETITEMS on an odd number of operands the error of the *)
(* unpaired key comes first).                                              *)
(***************************************************************************)
C12_BadStackTopIsError ==
    [][(/\ Iteration
        /\ last'.tag \in Family
        /\ ReceiverIdx(last', stack) # 0
        /\ ResolvesToNoCollection(memo, stack[ReceiverIdx(last', stack)]))
       => /\ status' = "error"
          /\ result' = <<>> /\ resolved' = FALSE
          /\ memo' = memo
          /\ PairedOperands(last', stack) => err' = BadStackTop(last')]_vars

\* SETITEMS has failed on a receiver that is a Ref and leads, through
\* the longest chain of fewer than MAX_DEPTH Refs, to the raw NONE
\* instruction.
C12_Witness ==
    /\ status = "error"
    /\ err = "Bad stack top for SETITEMS"
    /\ last.tag = "SETITEMS"
    /\ DOMAIN memo = 0..(MAX_DEPTH - 2)
    /\ \A i \in 0..(MAX_DEPTH - 3) : memo[i] = Ref(i + 1)
    /\ memo[MAX_DEPTH - 2] = Raw(NONE)

(***************************************************************************)
(* C13.  A PROTO instruction whose value exceeds MAX_PROTOCOL (5) makes    *)
(* evaluate fail at that instruction, with the stack and the memo table as *)
(* they were, and nothing is executed after a failure; a PROTO instruction *)
(* with a value in 0..5 leaves the stack and the memo table unchanged and  *)
(* the loop goes on.                                                       *)
(***************************************************************************)
C13_ProtoAboveFiveFails ==
    [][/\ status # "error"
       /\ (Iteration /\ last'.tag = "PROTO")
            => /\ stack' = stack
               /\ memo' = memo
               /\ IF last'.i > 5
                  THEN status' = "error" /\ err' = "Unsupported protocol"
                  ELSE status' = "run" /\ err' = ""]_vars

\* PROTO 6 has failed after a value was pushed and memoized.
C13_Witness ==
    /\ status = "error"
    /\ err = "Unsupported protocol"
    /\ last = OpInt("PROTO", MAX_PROTOCOL + 1)
    /\ stack = <<Ref(0)>>
    /\ 0 \in DOMAIN memo

(***************************************************************************)
(* C14.  Once evaluate has reached a STOP instruction no later instruction *)
(* is executed, however many follow it in the slice: the stack and the     *)
(* memo table stay those that held when STOP was reached and are the ones  *)
(* returned, and evaluate does not fail on an instruction: without eager   *)
(* resolution it returns the stack as it is, and the only failure left is  *)
(* that of the eager resolution of the returned stack.                     *)
(***************************************************************************)
C14_NothingRunsAfterStop ==
    [][(last.tag = "STOP")
       => /\ status = "stopped"
          /\ last' = last /\ remaining' = remaining
          /\ stack' = stack /\ memo' = memo
          /\ status' \in {"ok", "error"}
          /\ status' = "error" => resolved'
          /\ ~resolved' => status' = "ok" /\ result' = stack]_vars

\* evaluate(ops, false) has returned the stack that STOP found, with one
\* instruction of the slice left behind STOP.
C14_Witness ==
    /\ status = "ok"
    /\ last.tag = "STOP"
    /\ remaining = 1
    /\ ~resolved
    /\ stack # <<>>
    /\ result = stack

(***************************************************************************)
(* C15.  evaluate(ops, true) and evaluate(ops, false) return the same memo *)
(* table, the one the loop ended with.  evaluate(ops, false) returns the   *)
(* stack untouched, Ref and Raw nodes included; the value sequence of      *)
(* evaluate(ops, true) is, element by element, the resolve-all with fix-up *)
(* of that stack against that memo table (entered as the iterator form     *)
(* enters it, one level down), and evaluate(ops, true) fails exactly when  *)
(* the resolve-all of some element fails.                                  *)
(***************************************************************************)
C15_EagerIsResolveAllOfLazy ==
    [][(status = "stopped")
       => LET each == [i \in 1..Len(stack) |-> resolve_all_refs(memo, 1, stack[i], TRUE)]
          IN  /\ memo' = memo /\ stack' = stack
              /\ ~resolved' => status' = "ok" /\ result' = stack
              /\ resolved' =>
                    IF \A i \in 1..Len(stack) : each[i].ok
                    THEN /\ status' = "ok"
                         /\ result' = [i \in 1..Len(stack) |-> each[i].v]
                    ELSE status' = "error"]_vars

\* evaluate(ops, true) has returned the integer 1 for a stack that holds the
\* Ref to the memoized raw instruction.
C15_Witness ==
    /\ status = "ok"
    /\ resolved
    /\ stack = <<Ref(0)>>
    /\ memo = (0 :> Raw(BININT1(1)))
    /\ result = <<IntV(1)>>

(***************************************************************************)
(* Vocabulary of the decoder claims, said from the opcode table (p_op) and *)
(* from the buffers, without the parser.                                   *)
(***************************************************************************)
KnownTags == {p_op[n] : n \in DOMAIN p_op}

\* The buffer b is whole opcodes (a lead) followed by the bytes rest.
SplitsInto(b, lead, rest) == b = lead \o rest

\* The offsets n at which the buffer holds, behind n bytes of whole opcodes,
\* a byte in opcode position that is no known tag.
UnknownTagAt ==
    {Len(lead) : lead \in {l \in Leads(MaxLead) :
        /\ Len(l) < Len(input)
        /\ SubSeq(input, 1, Len(l)) = l
        /\ input[Len(l) + 1] \notin KnownTags}}

(***************************************************************************)
(* C16.  parse_ops fails whenever a byte in opcode position is not a known *)
(* tag, wherever the byte lies in the buffer (behind any number of whole   *)
(* opcodes, behind a STOP): the cursor never passes the byte, the parse    *)
(* ends with a failure when it reaches it, the opcodes decoded before it   *)
(* are not returned and evaluate is never entered.                         *)
(***************************************************************************)
C16_UnknownTagFails ==
    [][\A n \in UnknownTagAt :
          /\ cursor' <= n
          /\ parsed' \in {"parsing", "failure"}
          /\ (parsed = "parsing" /\ cursor = n) => parsed' = "failure"
          /\ remaining' = 0 /\ stack' = <<>>]_vars

\* The parse has failed on the byte 0x99 that lies behind EMPTY_DICT and
\* STOP.
C16_Witness ==
    /\ input = <<125, 46, 153>>
    /\ parsed = "failure"
    /\ cursor = 2
    /\ Len(decoded) = 2

(***************************************************************************)
(* Vocabulary of C17: the opcodes with a fixed-width or length-prefixed    *)
(* argument.                                                               *)
(***************************************************************************)
SizedRules ==
    {"u8", "le_u16", "le_u32", "le_u64", "le_i16", "le_i32", "le_f64",
     "data_u8", "data_u32", "data_u64", "str_u8", "str_u32", "str_u64"}

\* The buffer ends in the middle of the argument of such an opcode, behind
\* whole opcodes.
EndsInArgument ==
    \E lead \in Leads(MaxLead) : \E cut \in TruncationsOf(SizedRules) :
        SplitsInto(input, lead, cut)

(***************************************************************************)
(* C17.  parse_ops on a buffer that ends in the middle of the argument of  *)
(* an opcode with a fixed-width or length-prefixed argument returns an     *)
(* error, also when whole opcodes precede the opcode that is cut short; it *)
(* never returns success with that opcode dropped.                         *)
(***************************************************************************)
C17_TruncatedArgumentFails ==
    EndsInArgument => parsed # "ok"

(***************************************************************************)
(* Vocabulary of C18: the opcode at the cursor, as the opcode table and    *)
(* the wire format have it.                                                *)
(***************************************************************************)
\* The name of the tag byte b in the opcode table.
TagName(b) == CHOOSE n \in DOMAIN p_op : p_op[n] = b

\* The argument parser of the opcode named n.
RuleOf(n) == (CHOOSE arm \in Arms : arm[1] = n)[2]

\* The width of the length prefix of a length-prefixed argument.
PrefixWidth(rule) ==
    CASE rule \in {"data_u8", "str_u8"} -> 1
      [] rule \in {"data_u32", "str_u32"} -> 4
      [] rule \in {"data_u64", "str_u64"} -> 8

\* The value that the wire form a of an argument encodes.
Encoded(rule, a) ==
    CASE rule = "none" -> <<>>
      [] rule = "nl" -> SubSeq(a, 1, Len(a) - 1)
      [] rule = "nl2" -> <<<<97>>, <<98>>>>
      [] rule = "le_f64" -> a
      [] rule \in {"data_u8", "data_u32", "data_u64", "str_u8", "str_u32", "str_u64"} ->
            SubSeq(a, PrefixWidth(rule) + 1, Len(a))
      [] a = <<1>> -> 1
      [] a = <<200>> -> 200
      [] a = <<1, 2>> -> 513
      [] a = <<255, 255>> -> 0 - 1
      [] a = <<1, 0, 0, 0>> -> 1
      [] a = <<0, 1, 0, 0>> -> 256
      [] a = <<254, 255, 255, 255>> -> 0 - 2
      [] a = <<1, 0, 0, 0, 0, 0, 0, 0>> -> 1

\* The whole opcodes that the slice at the cursor starts with (one at most).
AtCursor ==
    {e \in EncodingsOf(Rules) : /\ Len(e) <= Len(Slice)
                                /\ SubSeq(Slice, 1, Len(e)) = e}

(***************************************************************************)
(* C18.  For every known tag byte parse_op returns the instruction variant *)
(* that the opcode table names for that byte (0x8c yields                  *)
(* SHORT_BINUNICODE, 0x8d yields BINUNICODE8), carrying exactly the        *)
(* encoded argument, and advances the cursor by the tag byte and the bytes *)
(* of that argument.                                                       *)
(***************************************************************************)
C18_VariantOfTheTable ==
    [][(parsed = "parsing")
       => \A e \in AtCursor :
            LET n == TagName(Head(e))
                rule == RuleOf(n)
            IN  /\ parsed' = "parsing"
                /\ cursor' = cursor + Len(e)
                /\ decoded' = Append(decoded, PickleOp(n, rule, Encoded(rule, Tail(e))))]_vars

(***************************************************************************)
(* C19.  Decoding the two bytes of EMPTY_DICT, STOP and evaluating the     *)
(* result with eager resolution succeeds with exactly one value,           *)
(* Seq(Dict, []), and an empty memo table; in every evaluation EMPTY_DICT, *)
(* EMPTY_LIST, EMPTY_TUPLE and EMPTY_SET each push one empty Seq of their  *)
(* kind and leave the memo table and the rest of the stack as they were.   *)
(***************************************************************************)
EmptyKind ==
    [EMPTY_DICT |-> "Dict", EMPTY_LIST |-> "List", EMPTY_TUPLE |-> "Tuple",
     EMPTY_SET |-> "Set"]

C19_EmptyContainers ==
    [][/\ (input = <<125, 46>>)
            => /\ parsed' \in {"parsing", "ok"}
               /\ status' \in {"run", "stopped", "ok"}
               /\ memo' = EmptyMemo
               /\ parsed' = "ok" => decoded' = <<Op0("EMPTY_DICT"), Op0("STOP")>>
               /\ (status' = "ok" /\ resolved') => result' = <<SeqV("Dict", <<>>)>>
       /\ (Iteration /\ last'.tag \in DOMAIN EmptyKind)
            => /\ status' = "run"
               /\ stack' = Append(stack, SeqV(EmptyKind[last'.tag], <<>>))
               /\ memo' = memo]_vars

\* evaluate(.., true) has returned the one empty dict for the buffer "}.".
C19_Witness ==
    /\ input = <<125, 46>>
    /\ parsed = "ok"
    /\ status = "ok"
    /\ resolved
    /\ result = <<SeqV("Dict", <<>>)>>
    /\ memo = EmptyMemo

(***************************************************************************)
(* Vocabulary of C20.                                                      *)
(***************************************************************************)
\* The integer whose little-endian two's-complement encoding is the
\* non-empty payload b: negative exactly when bit 0x80 of the last byte is
\* set.
TwosComplement(b) ==
    IF b[Len(b)] >= 128 THEN from_bytes_le(b) - Pow(256, Len(b)) ELSE from_bytes_le(b)

\* A raw LONG1 or LONG4 instruction with a non-empty payload.
IsRawLong(v) ==
    /\ v.k = "Raw"
    /\ v.op.tag \in {"LONG1", "LONG4"}
    /\ v.op.by # <<>>

(***************************************************************************)
(* C20.  For every non-empty LONG1 or LONG4 payload, normalization yields  *)
(* the integer whose little-endian two's-complement encoding is that       *)
(* payload, as Int when it lies in the signed 64-bit range (as every       *)
(* payload of fewer than 8 bytes does) and as BigInt otherwise.            *)
(***************************************************************************)
C20_LongIsTwosComplement ==
    (status = "ok" /\ resolved)
        => \A n \in 1..Len(stack) :
              (IsRawLong(stack[n]) /\ Len(stack[n].op.by) < 8)
                  => result[n] = IntV(TwosComplement(stack[n].op.by))

(***************************************************************************)
(* Vocabulary of C21: the nodes of a value, the opcodes that fix_value has *)
(* a rule for, and the calls of Resolve-all that meet the depth bound.     *)
(***************************************************************************)
Children(v) ==
    CASE v.k \in {"App", "Object", "Global"} ->
            {v.t} \cup {v.args[i] : i \in 1..Len(v.args)}
      [] v.k = "Build" -> {v.t, v.a}
      [] v.k = "Seq" -> {v.args[i] : i \in 1..Len(v.args)}
      [] v.k = "PersId" -> {v.pid}
      [] OTHER -> {}

\* v and every node below it.
RECURSIVE Nodes(_)
Nodes(v) == {v} \cup UNION {Nodes(c) : c \in Children(v)}

NormalizedTags ==
    {"BININT", "BININT1", "BININT2", "LONG1", "LONG4", "BINFLOAT", "BINUNICODE",
     "BINUNICODE8", "SHORT_BINUNICODE", "BINBYTES", "BINBYTES8", "SHORT_BINBYTES",
     "BYTEARRAY8", "BINSTRING", "SHORT_BINSTRING", "NEWTRUE", "NEWFALSE", "NONE",
     "INT", "FLOAT", "LONG"}

\* A node that resolution with normalization is there to replace.
Unresolved(v) == v.k = "Ref" \/ (v.k = "Raw" /\ v.op.tag \in NormalizedTags)

\* The call c of resolve_all_refs_iter / resolve_all_refs, or one of the
\* calls that it leads to, is made at a depth of MAX_DEPTH or more.
RECURSIVE ReachesBound(_, _)
ReachesBound(m, c) ==
    IF c.depth >= MAX_DEPTH THEN TRUE
    ELSE IF c.call = "one" /\ c.val.k = "Ref"
         THEN LET r == resolve(m, c.val, TRUE) IN
              r.ok /\ ReachesBound(m, OneCall(c.depth + 1, r.v))
    ELSE \E i \in DOMAIN Callees(c) : ReachesBound(m, Callees(c)[i])

(***************************************************************************)
(* C21.  When evaluate(ops, true) succeeds and no call of Resolve-all was  *)
(* made at the depth bound, the returned vector holds no Ref node at any   *)
(* depth (root, or nested in App, Object, Build, Global, Seq or PersId)    *)
(* and no Raw node whose opcode fix_value has a rule for.                  *)
(***************************************************************************)
C21_EagerLeavesNoRef ==
    (status = "ok" /\ resolved /\ ~ReachesBound(memo, IterCall(0, stack)))
        => \A i \in 1..Len(result) : \A n \in Nodes(result[i]) : ~Unresolved(n)

\* 1, TUPLE1, BINPUT(0), TUPLE1, STOP has run and evaluate has returned with
\* eager resolution: the Ref inside the tuple on the stack and the Raw inside
\* the memoized tuple are both gone from the result.
C21_Witness ==
    /\ status = "ok"
    /\ resolved
    /\ stack = <<SeqV("Tuple", <<Ref(0)>>)>>
    /\ memo[0] = SeqV("Tuple", <<Raw(BININT1(1))>>)
    /\ ~ReachesBound(memo, IterCall(0, stack))
    /\ result = <<SeqV("Tuple", <<SeqV("Tuple", <<IntV(1)>>)>>)>>

(***************************************************************************)
(* Vocabulary of C22: the key/value pairs that SETITEM and SETITEMS take   *)
(* from the stack, in push order, and a receiver that resolve_mut follows  *)
(* to a Seq or a Global.                                                   *)
(***************************************************************************)
PairsOf(op, s) ==
    IF op.tag = "SETITEM" THEN <<TupleOf(<<s[Len(s) - 1], s[Len(s)]>>)>>
    ELSE LET vals == Above(s, TopMark(s)) IN
         [i \in 1..(Len(vals) \div 2) |-> TupleOf(<<vals[2 * i - 1], vals[2 * i]>>)]

ResolvesToCollection(m, x) ==
    IF x.k # "Ref" THEN x.k \in {"Global", "Seq"}
    ELSE LET c == Chain(m, x.id) IN
         /\ c.end = "value"
         /\ c.hops <= MAX_DEPTH
         /\ m[c.id].k \in {"Global", "Seq"}

(***************************************************************************)
(* C22.  SETITEM pops a value and then a key and appends the one pair      *)
(* Tuple(key, value) to the argument list of the target that the stack top *)
(* resolves to; SETITEMS with n key/value pairs above the marker appends   *)
(* those n pair-tuples, so that the argument list grows by exactly n       *)
(* elements, each a 2-element Tuple, in push order.                        *)
(***************************************************************************)
C22_SetitemsAppendsThePairs ==
    [][(/\ Iteration
        /\ last'.tag \in {"SETITEM", "SETITEMS"}
        /\ ReceiverIdx(last', stack) # 0
        /\ PairedOperands(last', stack)
        /\ ResolvesToCollection(memo, stack[ReceiverIdx(last', stack)]))
       => LET r == ReceiverIdx(last', stack)
              x == stack[r]
              pairs == PairsOf(last', stack)
          IN  /\ status' = "run"
              /\ IF x.k = "Ref"
                 THEN /\ stack' = SubSeq(stack, 1, r)
                      /\ memo' = [memo EXCEPT ![Chain(memo, x.id).id].args = @ \o pairs]
                 ELSE /\ stack' = [SubSeq(stack, 1, r) EXCEPT ![r].args = @ \o pairs]
                      /\ memo' = memo]_vars

(***************************************************************************)
(* C23.  A collection memoized with MEMOIZE and then extended through the  *)
(* stack top by APPEND, APPENDS, ADDITEMS, SETITEM or SETITEMS is seen     *)
(* extended through the memo table: after the instruction, resolving the   *)
(* id under which the collection was memoized yields the same contents as  *)
(* the stack entry.                                                        *)
(***************************************************************************)
C23_MemoizedCollectionIsShared ==
    [][(/\ Iteration
        /\ last'.tag \in Family
        /\ status' = "run"
        /\ ReceiverIdx(last', stack) # 0
        /\ stack[ReceiverIdx(last', stack)].k = "Seq")
       => LET r == ReceiverIdx(last', stack) IN
          \A n \in DOMAIN memo :
            memo[n] = stack[r] => resolve(memo', Ref(n), TRUE) = Ok(stack'[r])]_vars

(***************************************************************************)
(* C24.  BINPUT, LONG_BINPUT and PUT (with the id that its text parses to) *)
(* on a non-empty stack leave the stack height unchanged, replace the top  *)
(* entry by Ref(id), set memo[id] to the former top, overwriting any       *)
(* earlier entry under that id, and leave every other memo entry and every *)
(* lower stack entry unchanged; on an empty stack they fail and the memo   *)
(* table is not modified.                                                  *)
(***************************************************************************)
C24_PutStoresTopAndLeavesRef ==
    [][(/\ Iteration
        /\ IsPut(last')
        /\ last'.tag = "PUT" => ParseU32(last'.txt).ok)
       => IF stack # <<>>
          THEN LET id == OpMemoId(last')
                   top == Len(stack)
               IN  /\ status' = "run"
                   /\ Len(stack') = top
                   /\ stack'[top] = [k |-> "Ref", id |-> id]
                   /\ \A i \in 1..(top - 1) : stack'[i] = stack[i]
                   /\ DOMAIN memo' = DOMAIN memo \cup {id}
                   /\ memo'[id] = stack[top]
                   /\ \A n \in DOMAIN memo \ {id} : memo'[n] = memo[n]
          ELSE /\ status' = "error"
               /\ memo' = memo]_vars

\* 1, TUPLE1, 2, BINPUT(1), BINPUT(1) has run: the second store has
\* overwritten the entry of the first (the 2) by the Ref that the first left
\* on the stack, above the tuple.
C24_Witness ==
    /\ status = "run"
    /\ last = OpId("BINPUT", 1)
    /\ stack = <<SeqV("Tuple", <<Raw(BININT1(1))>>), Ref(1)>>
    /\ memo = [n \in {1} |-> Ref(1)]

(***************************************************************************)
(* C25.  MEMOIZE on a non-empty stack leaves the stack unchanged (the top  *)
(* is neither popped nor replaced by a Ref) and stores a copy of the top   *)
(* under the id equal to the number of entries that the memo table held    *)
(* before the instruction; on an empty stack it fails with an error.       *)
(***************************************************************************)
C25_MemoizeKeepsTheStack ==
    [][(Iteration /\ last'.tag = "MEMOIZE")
       => IF stack # <<>>
          THEN LET id == Cardinality(DOMAIN memo) IN
               /\ status' = "run"
               /\ stack' = stack
               /\ id \in DOMAIN memo'
               /\ memo'[id] = stack[Len(stack)]
          ELSE status' = "error"]_vars

\* 1, MEMOIZE, MEMOIZE has run: the 1 is still on the stack, and the memo
\* table holds a copy of it under the ids 0 and 1.
C25_Witness ==
    /\ status = "run"
    /\ last = Op0("MEMOIZE")
    /\ stack = <<Raw(BININT1(1))>>
    /\ memo = [n \in {0, 1} |-> Raw(BININT1(1))]

(***************************************************************************)
(* C26.  As the claim has it: in every instruction sequence, those that    *)
(* mix MEMOIZE with BINPUT, LONG_BINPUT or PUT of arbitrary ids included,  *)
(* MEMOIZE never stores under an id that is already present in the memo    *)
(* table.                                                                  *)
(***************************************************************************)
C26_MemoizeIdIsFresh ==
    [][(Iteration /\ last'.tag = "MEMOIZE" /\ status' = "run")
       => \E id \in DOMAIN memo' \ DOMAIN memo : memo'[id] = stack[Len(stack)]]_vars

(***************************************************************************)
(* C26, amended.  The id that MEMOIZE chooses is the number of entries of  *)
(* the memo table: the top is stored under it and every other entry is     *)
(* kept.  The id is a new one when the table holds the ids 0 .. size - 1   *)
(* (as it does while MEMOIZE is the only instruction that has stored), and *)
(* the table then holds 0 .. size; when a BINPUT, LONG_BINPUT or PUT has   *)
(* stored under the id that equals the size of the table, MEMOIZE          *)
(* overwrites that entry.                                                  *)
(***************************************************************************)
C26_MemoizeIdIsTheTableSize ==
    [][(Iteration /\ last'.tag = "MEMOIZE" /\ stack # <<>>)
       => LET id == Cardinality(DOMAIN memo) IN
          /\ status' = "run"
          /\ DOMAIN memo' = DOMAIN memo \cup {id}
          /\ memo'[id] = stack[Len(stack)]
          /\ \A n \in DOMAIN memo \ {id} : memo'[n] = memo[n]
          /\ DOMAIN memo = 0..(id - 1) => id \notin DOMAIN memo /\ DOMAIN memo' = 0..id]_vars

\* 1, BINPUT(1), MEMOIZE has run: the table held one entry, under the id 1,
\* and MEMOIZE has overwritten it by the Ref(1) on top of the stack.
C26_Witness ==
    /\ status = "run"
    /\ last = Op0("MEMOIZE")
    /\ stack = <<Ref(1)>>
    /\ memo = [n \in {1} |-> Ref(1)]

(***************************************************************************)
(* C27.  REDUCE pops the arguments first and the callable second, resolves *)
(* each through its chain of memo references (to the value at the end of   *)
(* the chain when it ends within the depth bound, to the Ref at which      *)
(* resolve stops otherwise), and pushes Global(callable, [arguments]),     *)
(* whose argument list has exactly one element; the stack height decreases *)
(* by one, the entries below the operands stay and the memo table is       *)
(* unchanged.                                                              *)
(***************************************************************************)
C27_ReduceBuildsGlobal ==
    [][(/\ Iteration
        /\ last'.tag = "REDUCE"
        /\ Len(stack) >= 2
        /\ status' = "run")
       => LET top == Len(stack)
              arguments == stack[top]
              callable == stack[top - 1]
              Resolved(x) == IF EndsWithinBound(memo, x) THEN ChainValue(memo, x)
                             ELSE resolve(memo, x, TRUE).v
          IN  /\ Len(stack') = top - 1
              /\ SubSeq(stack', 1, top - 2) = SubSeq(stack, 1, top - 2)
              /\ stack'[top - 1] = [k |-> "Global", t |-> Resolved(callable),
                                    args |-> <<Resolved(arguments)>>]
              /\ EndsWithinBound(memo, callable) => stack'[top - 1].t.k # "Ref"
              /\ memo' = memo]_vars

\* 1, REDUCE has run on the Ref at the head of the chain Ref(0) -> Ref(1) ->
\* Ref(2) -> the memoized Global of STACK_GLOBAL: the callable is that Global
\* and the one argument is the 1.
C27_Witness ==
    /\ status = "run"
    /\ last = Op0("REDUCE")
    /\ DOMAIN memo = 0..2
    /\ memo[0] = Ref(1) /\ memo[1] = Ref(2)
    /\ stack = <<Global(Global(SeqV("Tuple", <<Raw(NONE), Raw(NONE)>>), <<>>),
                        <<Raw(BININT1(1))>>)>>

(***************************************************************************)
(* Vocabulary of C28: the instructions that pop through the mark, and      *)
(* those of them that hand the popped values on as they are.               *)
(***************************************************************************)
MarkPoppers ==
    {"POP_MARK", "TUPLE", "DICT", "LIST", "FROZENSET", "INST", "APPENDS", "ADDITEMS",
     "SETITEMS"}

\* The values that the node pushed by op holds (none for POP_MARK).
PoppedInto(op, s) ==
    IF op.tag = "POP_MARK" THEN <<>> ELSE <<s[Len(s)].args>>

(***************************************************************************)
(* C28.  Pop-through-mark always uses the most recent marker: with several *)
(* markers on the stack it returns, in push order, exactly the values      *)
(* above the topmost marker (TUPLE, LIST, FROZENSET and INST push a node   *)
(* that holds them), removes that marker and those values, and leaves      *)
(* every entry below the marker, earlier markers included, unchanged; with *)
(* no marker on the stack it fails with the missing-mark error and the     *)
(* stack is unchanged.                                                     *)
(***************************************************************************)
C28_PopMarkUsesTopmostMarker ==
    [][(Iteration /\ last'.tag \in MarkPoppers)
       => LET mk == TopMark(stack) IN
          IF mk = 0
          THEN /\ status' = "error"
               /\ err' = "Missing MARK"
               /\ stack' = stack
          ELSE /\ last'.tag = "POP_MARK" => status' = "run" /\ stack' = Below(stack, mk)
               /\ last'.tag \in {"TUPLE", "LIST", "FROZENSET", "INST"} =>
                    /\ status' = "run"
                    /\ Len(stack') = mk
                    /\ SubSeq(stack', 1, mk - 1) = Below(stack, mk)
                    /\ PoppedInto(last', stack') = <<Above(stack, mk)>>
               /\ status' = "run" => /\ Len(stack') <= mk
                                     /\ \A i \in 1..(Len(stack') - 1) : stack'[i] = stack[i]]_vars

\* MARK, 1, MARK, 2, 1, TUPLE has run: the tuple holds the 2 and the 1 that
\* were above the second marker, and the first marker and the 1 above it are
\* still on the stack.
C28_Witness ==
    /\ status = "run"
    /\ last = Op0("TUPLE")
    /\ stack = <<Raw(MARK), Raw(BININT1(1)),
                 SeqV("Tuple", <<Raw(BININT1(2)), Raw(BININT1(1))>>)>>

(***************************************************************************)
(* Vocabulary of C29 and C30: the call that the caller has made, the value *)
(* found by n lookups from a starting value, and the ids that a value and  *)
(* a memo table refer to.                                                  *)
(***************************************************************************)
CallerStep == status = "ok" /\ status' \in {"returned", "failed", "panic"}

\* The value that n lookups lead to from v (lookups stop at a value that is
\* no Ref and at an id that the table does not hold).
RECURSIVE Hop(_, _, _)
Hop(m, v, n) ==
    IF n = 0 THEN v
    ELSE LET p == Hop(m, v, n - 1) IN
         IF p.k = "Ref" /\ p.id \in DOMAIN m THEN m[p.id] ELSE p

\* The chain that starts at v is longer than the bound, and every id that is
\* looked up exists: each of the first MAX_DEPTH lookups is made, on an id
\* that the table holds.
LongChain(m, v) ==
    \A j \in 0..(MAX_DEPTH - 1) :
        LET p == Hop(m, v, j) IN p.k = "Ref" /\ p.id \in DOMAIN m

\* Every Ref in v and in the entries of m has an id that m holds.
AllIdsExist(m, v) ==
    \A n \in Nodes(v) \cup UNION {Nodes(m[id]) : id \in DOMAIN m} :
        n.k = "Ref" => n.id \in DOMAIN m

(***************************************************************************)
(* C29.  Hitting the depth bound is not an error.  For every memo table in *)
(* which all looked-up ids exist, resolve(.., true) on a chain longer than *)
(* the bound returns successfully the last value it looked up (the one     *)
(* found by the MAX_DEPTH-th lookup); resolve_all_refs called at the bound *)
(* returns the subtree it was given unchanged, as does the list of items   *)
(* of a Seq one level above the bound; and neither of the two returns an   *)
(* error when every id referred to exists.                                 *)
(***************************************************************************)
C29_DepthBoundIsNoError ==
    [][CallerStep
       => LET c == work'[1] IN
          /\ (c.call = "resolve" /\ c.recursive /\ LongChain(memo, c.op))
                => status' = "returned" /\ result' = <<Hop(memo, c.op, MAX_DEPTH)>>
          /\ (c.call = "resolve_all_refs" /\ c.depth >= MAX_DEPTH)
                => status' = "returned" /\ result' = <<c.val>>
          /\ (c.call = "resolve_all_refs" /\ c.depth = MAX_DEPTH - 1 /\ c.val.k = "Seq")
                => status' = "returned" /\ result' = <<c.val>>
          /\ (c.call = "resolve" /\ AllIdsExist(memo, c.op)) => status' = "returned"
          /\ (c.call = "resolve_all_refs" /\ AllIdsExist(memo, c.val))
                => status' = "returned"]_vars

\* The caller has resolved Ref(0), the head of a chain of MAX_DEPTH + 1 Refs
\* that ends at a memoized value: resolve has returned the Ref found by its
\* last lookup.
C29_Witness ==
    /\ status = "returned"
    /\ work[1].call = "resolve"
    /\ work[1].recursive
    /\ work[1].op = Ref(0)
    /\ LongChain(memo, work[1].op)
    /\ AllIdsExist(memo, work[1].op)
    /\ result = <<Ref(MAX_DEPTH)>>

(***************************************************************************)
(* C30.  The non-recursive variant resolves exactly one hop: for every     *)
(* memo table and every Ref(n) with n present, resolve(Ref(n), false)      *)
(* returns the value stored under n and resolve_mut(Ref(n), false) returns *)
(* a reference to the entry stored under n, even when that entry is itself *)
(* a Ref.                                                                  *)
(***************************************************************************)
C30_NonRecursiveIsOneHop ==
    [][CallerStep
       => LET c == work'[1] IN
          (/\ c.call \in {"resolve", "resolve_mut"}
           /\ ~c.recursive
           /\ c.op.k = "Ref"
           /\ c.op.id \in DOMAIN memo)
          => /\ status' = "returned"
             /\ result' = <<memo[c.op.id]>>
             /\ c.call = "resolve_mut" => c.place.r = "at" /\ c.place.id = c.op.id]_vars

(***************************************************************************)
(* C31.  resolve_mut is resolve with a mutable result: for every memo      *)
(* table and every starting value (a non-Ref, a finite chain, a chain      *)
(* longer than the depth bound, a cycle), resolve_mut(v, true) succeeds    *)
(* exactly when resolve(v, true) succeeds, and the entry it hands back     *)
(* equals the value that resolve(v, true) returns.                         *)
(***************************************************************************)
C31_ResolveMutIsResolve ==
    [][CallerStep
       => LET c == work'[1] IN
          (c.call = "resolve_mut" /\ c.recursive)
          => LET r == resolve(memo, c.op, TRUE) IN
             /\ status' = "returned" <=> r.ok
             /\ r.ok => result' = <<r.v>>]_vars

(***************************************************************************)
(* Vocabulary of C32: the instructions that have an arm of their own in    *)
(* evaluate.  Every other instruction takes the fallthrough arm.           *)
(***************************************************************************)
HandledTags ==
    {"MARK", "STOP", "POP", "POP_MARK", "DUP", "PERSID", "BINPERSID", "REDUCE",
     "BUILD", "EMPTY_DICT", "GET", "BINGET", "LONG_BINGET", "EMPTY_LIST", "BINPUT",
     "LONG_BINPUT", "TUPLE", "EMPTY_TUPLE", "SETITEM", "SETITEMS", "PROTO", "TUPLE1",
     "TUPLE2", "TUPLE3", "APPEND", "APPENDS", "DICT", "LIST", "INST", "OBJ", "PUT",
     "NEWOBJ", "EMPTY_SET", "ADDITEMS", "FROZENSET", "NEWOBJ_EX", "STACK_GLOBAL",
     "MEMOIZE"}

(***************************************************************************)
(* C32.  Every instruction without special handling (the value literals,   *)
(* EXT1, EXT2, EXT4, FRAME, NEXT_BUFFER, READONLY_BUFFER, STRING, UNICODE, *)
(* ..) is pushed verbatim as one Raw value: the stack grows by exactly one *)
(* entry, the Raw that holds the instruction, the entries below it and the *)
(* memo table are unchanged, and the instruction never fails.              *)
(***************************************************************************)
C32_UnhandledIsPushedRaw ==
    [][(Iteration /\ last'.tag \notin HandledTags)
       => /\ status' = "run"
          /\ Len(stack') = Len(stack) + 1
          /\ stack'[Len(stack')] = [k |-> "Raw", op |-> last']
          /\ SubSeq(stack', 1, Len(stack)) = stack
          /\ memo' = memo]_vars

\* The buffer of EMPTY_DICT, MEMOIZE and a FRAME has been decoded and run:
\* the FRAME instruction is on the stack as a Raw, above the dict, and the
\* memo table holds what MEMOIZE stored.
C32_Witness ==
    /\ status = "run"
    /\ last.tag = "FRAME"
    /\ stack = <<SeqV("Dict", <<>>), Raw(last)>>
    /\ memo = [n \in {0} |-> SeqV("Dict", <<>>)]

(***************************************************************************)
(* Vocabulary of C33: a Ref to an id that the memo table does not hold.    *)
(***************************************************************************)
Dangling(m, v) == v.k = "Ref" /\ v.id \notin DOMAIN m

(***************************************************************************)
(* C33.  GET (with the id that its text parses to), BINGET and LONG_BINGET *)
(* push Ref(id) and leave the memo table and the rest of the stack         *)
(* unchanged; they do not look the id up, so fetching an id that was never *)
(* stored succeeds at that instruction.  The missing id becomes an error   *)
(* only when the reference is resolved: REDUCE, BUILD and STACK_GLOBAL on  *)
(* such an operand, an append/setitem-family instruction on such a         *)
(* receiver, and eager resolution of a final stack that holds such a Ref   *)
(* fail with the bad-memo-id error; no other instruction fails with it,    *)
(* and without eager resolution evaluate returns the Ref as it is.         *)
(***************************************************************************)
C33_FetchDoesNotLookUp ==
    [][/\ (Iteration /\ IsGet(last') /\ (last'.tag = "GET" => ParseU32(last'.txt).ok))
            => /\ status' = "run"
               /\ stack' = Append(stack, [k |-> "Ref", id |-> OpMemoId(last')])
               /\ memo' = memo
       /\ (/\ Iteration
           /\ last'.tag \in Resolvers
           /\ Len(stack) >= 2
           /\ Dangling(memo, stack[Len(stack)]) \/ Dangling(memo, stack[Len(stack) - 1]))
            => status' = "error" /\ err' = "Bad memo id"
       /\ (/\ Iteration
           /\ last'.tag \in Family
           /\ ReceiverIdx(last', stack) # 0
           /\ Dangling(memo, stack[ReceiverIdx(last', stack)]))
            => /\ status' = "error"
               /\ PairedOperands(last', stack) => err' = "Bad memo id"
       /\ (Iteration /\ last'.tag \notin Resolvers \cup Family) => err' # "Bad memo id"
       /\ (/\ status = "stopped"
           /\ status' \in {"ok", "error"}
           /\ \E i \in 1..Len(stack) : Dangling(memo, stack[i]))
            => IF resolved' THEN status' = "error" /\ err' = "Bad memo id"
               ELSE status' = "ok" /\ result' = stack]_vars

\* BINGET(1), NONE, REDUCE has run on the empty memo table: the fetch of the
\* id that was never stored went through, and REDUCE, which resolves its
\* callable, has failed.
C33_Witness ==
    /\ status = "error"
    /\ err = "Bad memo id"
    /\ last = Op0("REDUCE")
    /\ memo = EmptyMemo
    /\ remaining = 0

(***************************************************************************)
(* Vocabulary of C34: instruction i of ops is the first one whose rule     *)
(* fails, every instruction before it having run without a failure, a      *)
(* panic or a STOP; and the number of instructions evaluate has executed.  *)
(***************************************************************************)
FirstFailing(ops, i) ==
    /\ i \in 1..Len(ops)
    /\ LET before == RunOps(SubSeq(ops, 1, i - 1)) IN
        /\ before.st = "run"
        /\ Exec(ops[i], before.stack, before.memo).st = "error"

ErrorOf(ops, i) ==
    LET before == RunOps(SubSeq(ops, 1, i - 1)) IN
    Exec(ops[i], before.stack, before.memo).err

Executed == Len(decoded) - remaining

(***************************************************************************)
(* C34.  evaluate fails with the error of the first failing instruction in *)
(* sequence order: when instruction i of the decoded slice is the first    *)
(* one whose rule fails and no STOP precedes it, evaluate never executes   *)
(* an instruction after i, never leaves the loop normally and never        *)
(* returns a stack; once it has executed instruction i it has failed with  *)
(* that instruction's error, and nothing happens afterwards.               *)
(***************************************************************************)
C34_FirstFailureIsReturned ==
    [][/\ \A i \in 1..Len(decoded') :
            (parsed' = "ok" /\ FirstFailing(decoded', i))
            => /\ Len(decoded') - remaining' <= i
               /\ status' \in {"run", "error"}
               /\ status' = "run" <=> Len(decoded') - remaining' < i
               /\ status' = "error"
                    => /\ err' = ErrorOf(decoded', i)
                       /\ last' = decoded'[i]
                       /\ result' = <<>>
                       /\ ~resolved'
       /\ status # "error"]_vars

\* The third instruction of a slice of four has failed: two instructions
\* ran before it and the one after it was never executed.
C34_Witness ==
    /\ parsed = "ok"
    /\ status = "error"
    /\ Len(decoded) = 4
    /\ Executed = 3
    /\ FirstFailing(decoded, Executed)
    /\ err = ErrorOf(decoded, Executed)

====
